---- MODULE Spec2Model ----
(***************************************************************************)
(* Model of the anypoint-connect core: the TokenManager session state      *)
(* machine over the encrypted FileStore, the OAuthFlow loopback callback   *)
(* listener, the `anc auth login` action and the RateLimiter.              *)
(*                                                                         *)
(* Times are epoch milliseconds.  A JavaScript `await` is a suspension     *)
(* point: every action below is the code that runs between two awaits.     *)
(* Awaits on work that is already complete (synchronous fs calls wrapped   *)
(* in async functions) resume in the microtask queue, before timers fire   *)
(* or the clock is read again; MicrotaskPending blocks the clock for them. *)
(***************************************************************************)
EXTENDS Integers, Sequences, FiniteSets, TLC

(* ------------------------------ bounds --------------------------------- *)
NumCallers == 2
MaxTicks == 2
MaxIssued == 3
MaxIV == 1
T0 == 4000000
NumOps == 4
MaxExec == 4
MaxListens == 1
MaxLookups == 2
MaxConfigCalls == 2
MaxUpdates == 4
MaxWaits == 2
MaxLines == 3
MaxPolls == 3

Callers == 1..NumCallers
Ops == 1..NumOps
RpmChoices == {100, 6000}
ConcurrentChoices == {1, 2}
IVs == 1..MaxIV
TickChoices == {1, 3300000}
ExpiresInChoices == {0, 240}
SetExpiresChoices == {60, 3600}
TimeoutChoices == {500, 120000}

(* --------------------------- program constants ------------------------- *)
bufferMs == 5 * 60 * 1000
DefaultExpiresIn == 3600
DefaultTimeoutMs == 120000
encryptionKey == "scrypt(hostname-username-anypoint-connect)"
callbackPath == "/api/callback"

ErrNotAuthenticated == "Not authenticated. Run: anc auth login"
ErrExpiredNoRefresh == "Token expired and no refresh token. Run: anc auth login"
ErrNoRefreshToken == "No refresh token available"
ErrRefreshFailed == "Token refresh failed"
ErrExchangeFailed == "Token exchange failed"
ErrTimedOut == "Authentication timed out (2 minutes)"
ErrOAuth == "OAuth error"
ErrServer == "server error"

(* ------------------------------ values --------------------------------- *)
\* null for AnypointTokens | null
NoTokens == [absent |-> TRUE]

\* AnypointTokens; refreshToken 0 is the undefined (or empty) refresh token
MkTokens(at, rt, ein, eat) ==
    [accessToken |-> at, refreshToken |-> rt, expiresIn |-> ein, expiresAt |-> eat]

NoFile == [kind |-> "absent"]
Garbage == [kind |-> "garbage"]

NoResult == [kind |-> "none", token |-> 0, err |-> "", detail |-> ""]
OkResult(at) == [kind |-> "ok", token |-> at, err |-> "", detail |-> ""]
ErrResult(msg) == [kind |-> "error", token |-> 0, err |-> msg, detail |-> ""]
ErrDetail(msg, d) == [kind |-> "error", token |-> 0, err |-> msg, detail |-> d]

NoStatus == [reported |-> FALSE]

VARIABLES
    now,            \* Date.now()
    ticks,          \* number of clock advances taken (bounds the clock)
    file,           \* content of ~/.anypoint-connect/tokens.enc
    cachedTokens,   \* TokenManager.cachedTokens
    issued,         \* number of access tokens handed out so far
    call,           \* per caller: the async TokenManager call it is in
    authTokens,     \* TokenSet of the last successful authenticate()
    srv,            \* the http.Server of waitForCallback: none, listening (port bound), down
    errPending,     \* server 'error' event queued by a failed bind
    closePending,   \* close() called, 'close' event not yet emitted
    timer,          \* the setTimeout of waitForCallback: unset, armed, off (fired or cleared)
    deadline,       \* when the armed timer is due (0 when it is not armed)
    promise,        \* the promise returned by waitForCallback
    httpStatus,     \* status of the response the listener wrote, until it is read (0: none)
    listens,        \* number of waitForCallback calls made so far
    cfg,            \* RateLimiter configuration
    running,        \* RateLimiter.running
    lastRequestTime,\* RateLimiter.lastRequestTime
    queue,          \* RateLimiter.queue (callers waiting for a slot)
    rl,             \* per operation: position in RateLimiter.execute
    execs,          \* number of execute() calls made so far
    gap,            \* time between the last two admissions (-1: fewer than two)
    saved,          \* FileStore: the TokenSets of the last two saves since the file was last cleared
    http,           \* per call: position in the HttpClient request pipeline
    store,          \* Cache.store
    hits,           \* Cache._hits
    misses,         \* Cache._misses
    evictions,      \* Cache._evictions
    lastSet,        \* per key: the last set() since the key was last deleted or cleared
    cacheCall,      \* per caller: the Cache call it is in
    conf,           \* getConfig: the three sources, process.env, cachedConfig, the last result
    dc,             \* DesignCenterApi.updateFile: position, calls made, requests sent
    wfd,            \* CloudHub2Api.waitForDeployment: position, startTime, timeoutMs, polls
    ch,             \* CloudHub2Api: the platform's deployment list, a mutation, getDeployments calls
    tl              \* LogsApi.tailLogs: the log file, lastTimestamp, what was yielded

tmVars == <<file, cachedTokens, issued, call, authTokens>>
cbVars == <<srv, errPending, closePending, timer, deadline, promise, httpStatus, listens>>
rlVars == <<cfg, running, lastRequestTime, queue, rl, execs, gap>>
fsVars == <<saved>>
httpVars == <<http>>
cacheVars == <<store, hits, misses, evictions, lastSet, cacheCall>>
baseVars == <<now, ticks, tmVars, cbVars, rlVars, fsVars, httpVars, cacheVars>>
apiVars == <<conf, dc, wfd, ch, tl>>
extVars == <<fsVars, httpVars, cacheVars, apiVars>>
vars == <<now, ticks, tmVars, cbVars, rlVars, extVars>>

(* ------------------------- FileStore (part_012) ------------------------ *)
\* JSON.stringify(tokens): the properties that are defined, by name
Stringify(t) ==
    [k \in {"accessToken", "expiresIn", "expiresAt"}
            \cup (IF t.refreshToken # 0 THEN {"refreshToken"} ELSE {}) |-> t[k]]

\* a property of a parsed object; a missing one reads as undefined (0)
Prop(obj, k) == IF k \in DOMAIN obj THEN obj[k] ELSE 0

\* JSON.parse(decrypted) as AnypointTokens
ParseTokens(text) ==
    MkTokens(Prop(text, "accessToken"), Prop(text, "refreshToken"),
             Prop(text, "expiresIn"), Prop(text, "expiresAt"))

\* AES-256-GCM, symbolically: ciphertext and tag are bound to key, iv, plaintext
Encrypt(key, iv, plain) == [k |-> key, iv |-> iv, pt |-> plain]
AuthTag(key, iv, plain) == [k |-> key, iv |-> iv, pt |-> plain]

\* a save that writes only when there is no file yet
SaveRecord_KeepExisting(t, iv) ==
    IF file.kind # "absent" THEN file
    ELSE [kind |-> "enc", iv |-> iv,
          authTag |-> AuthTag(encryptionKey, iv, Stringify(t)),
          data |-> Encrypt(encryptionKey, iv, Stringify(t))]

\* FileStore.save: the bytes written for tokens t under a fresh iv
SaveRecord(t, iv) ==
    [kind |-> "enc", iv |-> iv,
     authTag |-> AuthTag(encryptionKey, iv, Stringify(t)),
     data |-> Encrypt(encryptionKey, iv, Stringify(t))]

\* does decipher.final() accept the file
Decrypts(f) ==
    /\ f.kind = "enc"
    /\ f.data.k = encryptionKey
    /\ f.data.iv = f.iv
    /\ f.authTag = AuthTag(encryptionKey, f.iv, f.data.pt)

\* FileStore.load: the value returned
Load(f) == IF f.kind = "enc" /\ Decrypts(f) THEN ParseTokens(f.data.pt) ELSE NoTokens

\* FileStore.clear
Clear(f) == NoFile

\* FileStore.load that leaves a file it cannot read in place
FileAfterLoad_Keep(f) == f

\* FileStore.load: the file left behind (a corrupt file is cleared)
FileAfterLoad(f) ==
    IF f.kind = "absent" THEN f
    ELSE IF Decrypts(f) THEN f
    ELSE Clear(f)

\* FileStore.exists
Exists(f) == f.kind # "absent"

\* what can happen to an intact file behind the program's back: a bit of the
\* tag or of the ciphertext flipped, the file written under another key
\* (another host or user name); and any file can be replaced by arbitrary bytes
Corruptions(f) ==
    ({Garbage} \ {f}) \cup
    (IF ~Decrypts(f) THEN {}
     ELSE {[f EXCEPT !.authTag.iv = @ + 1],
           [f EXCEPT !.data.iv = @ + 1],
           [f EXCEPT !.data.k = "other", !.authTag.k = "other"]})

(* ---------------------- OAuthFlow token mapping (part_011) ------------- *)
\* a TokenResponse; 0 stands for a field the provider left out
TokenResponse(at, rt, ein) == [access_token |-> at, refresh_token |-> rt, expires_in |-> ein]
NoResponse == TokenResponse(0, 0, 0)

\* data.expires_in || 3600
ExpiresIn(data) == IF data.expires_in # 0 THEN data.expires_in ELSE DefaultExpiresIn

\* OAuthFlow.exchangeCode: the TokenSet built from a 2xx response at time n
ExchangeMap(data, n) ==
    MkTokens(data.access_token, data.refresh_token, ExpiresIn(data),
             n + ExpiresIn(data) * 1000)

\* the same mapping without the `|| refreshToken` fallback
RefreshMap_NoFallback(data, refreshToken, n) ==
    MkTokens(data.access_token, data.refresh_token, ExpiresIn(data),
             n + ExpiresIn(data) * 1000)

\* OAuthFlow.refreshToken: the TokenSet built from a 2xx response at time n
RefreshMap(data, refreshToken, n) ==
    MkTokens(data.access_token,
             IF data.refresh_token # 0 THEN data.refresh_token ELSE refreshToken,
             ExpiresIn(data),
             n + ExpiresIn(data) * 1000)

(* ------------------- TokenManager decisions (part_010) ----------------- *)
\* tokens.expiresAt < now + bufferMs
NeedsRefresh(t, n) == t.expiresAt < n + bufferMs

\* the branch getAccessToken takes on tokens t at time n, with <= for <
GatDecision_Le(t, n) ==
    IF t = NoTokens THEN "unauthenticated"
    ELSE IF t.expiresAt <= n + bufferMs
         THEN (IF t.refreshToken = 0 THEN "expired_norefresh" ELSE "refresh")
         ELSE "valid"

\* the branch getAccessToken takes, reporting every failure as unauthenticated
GatDecision_OneError(t, n) ==
    IF t = NoTokens THEN "unauthenticated"
    ELSE IF NeedsRefresh(t, n)
         THEN (IF t.refreshToken = 0 THEN "unauthenticated" ELSE "refresh")
         ELSE "valid"

\* the branch getAccessToken takes on tokens t at time n
GatDecision(t, n) ==
    IF t = NoTokens THEN "unauthenticated"
    ELSE IF NeedsRefresh(t, n)
         THEN (IF t.refreshToken = 0 THEN "expired_norefresh" ELSE "refresh")
         ELSE "valid"

\* getStatus with the 5 minute buffer of getAccessToken in its expiry test
StatusOf_Buffer(t, n) ==
    IF t = NoTokens
    THEN [reported |-> TRUE, authenticated |-> FALSE, hasExpiry |-> FALSE,
          expiresAt |-> 0, isExpired |-> FALSE, canRefresh |-> FALSE]
    ELSE [reported |-> TRUE,
          authenticated |-> (~(t.expiresAt < n + bufferMs)) \/ (t.refreshToken # 0),
          hasExpiry |-> TRUE,
          expiresAt |-> t.expiresAt,
          isExpired |-> t.expiresAt < n + bufferMs,
          canRefresh |-> t.refreshToken # 0]

\* TokenManager.getStatus on tokens t at time n
StatusOf(t, n) ==
    IF t = NoTokens
    THEN [reported |-> TRUE, authenticated |-> FALSE, hasExpiry |-> FALSE,
          expiresAt |-> 0, isExpired |-> FALSE, canRefresh |-> FALSE]
    ELSE [reported |-> TRUE,
          authenticated |-> (~(t.expiresAt < n)) \/ (t.refreshToken # 0),
          hasExpiry |-> TRUE,
          expiresAt |-> t.expiresAt,
          isExpired |-> t.expiresAt < n,
          canRefresh |-> t.refreshToken # 0]

\* what getTokens() would hand out in the current state
TokensView(cache, f) == IF cache # NoTokens THEN cache ELSE Load(f)

(* --------------------------- call records ------------------------------ *)
IdleCall ==
    [op |-> "none", pc |-> "idle",
     tokens |-> NoTokens,        \* the local `tokens` / `newTokens`
     loaded |-> NoTokens,        \* value of store.load() awaited in getTokens
     old |-> NoTokens,           \* tokens the refresh decision was taken on
     checkNow |-> 0,             \* Date.now() of that decision
     sentRT |-> 0,               \* refresh token sent to the provider
     resp |-> NoResponse,        \* token endpoint response body
     result |-> NoResult,
     status |-> NoStatus,        \* value returned by getStatus
     fetches |-> 0,              \* network calls issued by this call
     refreshes |-> 0,            \* refresh grants issued by this call
     startFile |-> NoFile,       \* store and cache when the call was made
     startCache |-> NoTokens,
     listenStarted |-> FALSE,    \* server.listen() has been called
     opened |-> FALSE,           \* open(authUrl) has been called
     turn |-> 0]                 \* place of its continuation among the queued ones

\* the place the next queued continuation gets
NextTurn ==
    LET used == {call[d].turn : d \in DOMAIN call}
    IN 1 + (CHOOSE m \in used : \A n \in used : n <= m)

\* continuations queued by `await` run in the order they were queued
MyTurn(c) == \A d \in DOMAIN call : call[d].turn > 0 => call[d].turn >= call[c].turn

\* the call records after the continuation of c has run and left c as r: the
\* continuations behind it move up, and c goes to the end if it awaits again
Requeue(c, r) ==
    [d \in DOMAIN call |->
        IF d # c
        THEN [call[d] EXCEPT !.turn = IF @ > 0 THEN @ - 1 ELSE 0]
        ELSE [r EXCEPT !.turn = IF r.pc \in {"loading", "check", "saved", "clearing"}
                                THEN Cardinality({e \in DOMAIN call : call[e].turn > 0})
                                ELSE 0]]

StartCall(op) ==
    [IdleCall EXCEPT !.op = op, !.startFile = file, !.startCache = cachedTokens]

Done(r, res) == [r EXCEPT !.pc = "done", !.result = res, !.turn = 0]

\* only one TokenManager call at a time: nobody else is in a call
NoOtherCall(c) == \A d \in Callers \ {c} : call[d].pc = "idle"

\* the callers of the runs in which calls do not overlap
SeqCallers == {1}

\* a call is made when the one before it is over, its listener included
SeqStart(c) == NoOtherCall(c) /\ ~closePending /\ timer # "armed" /\ httpStatus = 0

(* ------------------------------ the clock ------------------------------ *)
\* a continuation is queued that runs before any timer or I/O event
MicrotaskPending ==
    \/ errPending
    \/ \E c \in Callers : call[c].pc \in {"loading", "check", "saved", "clearing"}
    \/ \E o \in DOMAIN rl : rl[o].pc \in {"admitted", "resumed"}

Max(a, b) == IF a >= b THEN a ELSE b

\* time passes, up to the next setTimeout of the rate limiter that is due
Tick(d) ==
    /\ ticks < MaxTicks
    /\ ~MicrotaskPending
    /\ \A o \in Ops : rl[o].pc = "sleeping" => now + d <= rl[o].wakeAt
    /\ now' = now + d
    /\ ticks' = ticks + 1
    /\ UNCHANGED <<tmVars, cbVars, rlVars, extVars>>

(* ------------- OAuthFlow.waitForCallback (part_011:78-149) ------------- *)
PendingPromise == [state |-> "pending", code |-> "", st |-> "", reason |-> "", detail |-> ""]
NoPromise == [state |-> "none", code |-> "", st |-> "", reason |-> "", detail |-> ""]
Resolved(code, st) == [state |-> "resolved", code |-> code, st |-> st, reason |-> "", detail |-> ""]
Rejected(reason, d) == [state |-> "rejected", code |-> "", st |-> "", reason |-> reason, detail |-> d]

\* resolve()/reject() of a promise: only the first call has an effect
Settle(p, outcome) == IF p.state = "pending" THEN outcome ELSE p

\* the previous listener is gone and nothing of it is still scheduled
ListenerIdle ==
    /\ srv \in {"none", "down"}
    /\ ~errPending
    /\ ~closePending
    /\ timer # "armed"
    /\ promise.state # "pending"

\* the promise executor: createServer, listen(port), setTimeout, on('close'), on('error').
\* listen() binds at once; a failed bind is reported by an 'error' event on the next tick
WaitForCallbackStart(timeoutMs) ==
    /\ ListenerIdle
    /\ listens < MaxListens
    /\ listens' = listens + 1
    /\ \E bound \in BOOLEAN :
          /\ srv' = IF bound THEN "listening" ELSE "down"
          /\ errPending' = ~bound
    /\ closePending' = FALSE
    /\ timer' = "armed"
    /\ deadline' = now + timeoutMs
    /\ promise' = PendingPromise
    /\ httpStatus' = 0
    /\ UNCHANGED <<now, ticks>>

\* server.close(): the port is released now, 'close' is emitted once the
\* connections have drained
ServerClose ==
    /\ srv' = "down"
    /\ closePending' = TRUE

\* a request target that names a host: two slashes, the host, the path
OtherHostTarget == "//h/api/callback"

\* the request targets of the model: the callback path, another path, and
\* the callback path behind a host name (targets that new URL() rejects are
\* not among them)
Targets == {callbackPath, "/", OtherHostTarget}

\* new URL(req.url, 'http://localhost').pathname: a target that begins with
\* two slashes is resolved as //host/path, and the pathname is the path
Pathname(target) == IF target = OtherHostTarget THEN "/api/callback" ELSE target

\* the request handler, for a request with the given target and query
\* parameters ("" is a parameter that is missing or empty)
Request(target, code, st, error, desc) ==
    /\ \/ srv = "listening"
       \/ srv = "down" /\ closePending    \* a connection that is still open
    /\ IF Pathname(target) = callbackPath
       THEN IF error # ""
            THEN /\ httpStatus' = 400
                 /\ ServerClose
                 /\ promise' = Settle(promise,
                        Rejected(ErrOAuth, IF desc # "" THEN desc ELSE error))
            ELSE IF code # "" /\ st # ""
            THEN /\ httpStatus' = 200
                 /\ ServerClose
                 /\ promise' = Settle(promise, Resolved(code, st))
            ELSE /\ httpStatus' = 400
                 /\ UNCHANGED <<srv, closePending, promise>>
       ELSE /\ httpStatus' = 404
            /\ UNCHANGED <<srv, closePending, promise>>
    /\ UNCHANGED <<now, ticks, tmVars, rlVars, errPending, timer, deadline, listens, extVars>>

\* the timer callback without its reject(): the server is closed silently
TimerFire_NoReject ==
    /\ timer = "armed"
    /\ ~MicrotaskPending
    /\ now' = Max(now, deadline)
    /\ timer' = "off"
    /\ deadline' = 0
    /\ ServerClose
    /\ UNCHANGED <<ticks, tmVars, rlVars, errPending, promise, httpStatus, listens, extVars>>

\* the setTimeout callback; the clock reaches the deadline at the latest now
TimerFire ==
    /\ timer = "armed"
    /\ ~MicrotaskPending
    /\ now' = Max(now, deadline)
    /\ timer' = "off"
    /\ deadline' = 0
    /\ ServerClose
    /\ promise' = Settle(promise, Rejected(ErrTimedOut, ""))
    /\ UNCHANGED <<ticks, tmVars, rlVars, errPending, httpStatus, listens, extVars>>

\* server.on('close'): clearTimeout(timeout)
CloseEvent ==
    /\ closePending
    /\ closePending' = FALSE
    /\ timer' = IF timer = "armed" THEN "off" ELSE timer
    /\ deadline' = 0
    /\ UNCHANGED <<now, ticks, tmVars, rlVars, srv, errPending, promise, httpStatus, listens, extVars>>

\* server.on('error') for the failed bind: clearTimeout(timeout); reject(err)
BindError ==
    /\ errPending
    /\ errPending' = FALSE
    /\ timer' = IF timer = "armed" THEN "off" ELSE timer
    /\ deadline' = 0
    /\ promise' = Settle(promise, Rejected(ErrServer, ""))
    /\ UNCHANGED <<now, ticks, tmVars, rlVars, srv, closePending, httpStatus, listens, extVars>>

\* server.on('error') for an error on the listening socket (a failed accept):
\* clearTimeout(timeout); reject(err).  The handler does not close the server
AcceptError ==
    /\ srv = "listening"
    /\ ~errPending
    /\ timer' = IF timer = "armed" THEN "off" ELSE timer
    /\ deadline' = 0
    /\ promise' = Settle(promise, Rejected(ErrServer, ""))
    /\ UNCHANGED <<now, ticks, tmVars, rlVars, srv, errPending, closePending, httpStatus, listens, extVars>>

\* the client has read the response
ResponseRead ==
    /\ httpStatus # 0
    /\ httpStatus' = 0
    /\ UNCHANGED <<now, ticks, tmVars, rlVars, srv, errPending, closePending, timer,
                   deadline, promise, listens, extVars>>

\* a direct call of waitForCallback(port, path, timeoutMs)
WaitForCallback(timeoutMs) ==
    /\ WaitForCallbackStart(timeoutMs)
    /\ UNCHANGED <<tmVars, rlVars, extVars>>

(* ------------------ TokenManager calls (part_010) ---------------------- *)
\* getTokens() up to its await: the cached TokenSet, or store.load()
GetTokensCall(c, op) ==
    /\ call[c].pc = "idle"
    /\ IF cachedTokens # NoTokens
       THEN /\ call' = [call EXCEPT ![c] =
                   [StartCall(op) EXCEPT !.pc = "check", !.turn = NextTurn, !.tokens = cachedTokens]]
            /\ UNCHANGED file
       ELSE /\ call' = [call EXCEPT ![c] =
                   [StartCall(op) EXCEPT !.pc = "loading", !.turn = NextTurn, !.loaded = Load(file)]]
            /\ file' = FileAfterLoad(file)
    /\ UNCHANGED <<now, ticks, cachedTokens, issued, authTokens, cbVars, rlVars, extVars>>

\* getTokens() that returns what it loaded without keeping it
GetTokensAssign_NoCache(c) ==
    /\ call[c].pc = "loading"
    /\ MyTurn(c)
    /\ call' = Requeue(c, [call[c] EXCEPT !.pc = "check", !.tokens = call[c].loaded])
    /\ UNCHANGED <<now, ticks, file, cachedTokens, issued, authTokens, cbVars, rlVars, extVars>>

\* getTokens() after its await: this.cachedTokens = <loaded>; return it
GetTokensAssign(c) ==
    /\ call[c].pc = "loading"
    /\ MyTurn(c)
    /\ cachedTokens' = call[c].loaded
    /\ call' = Requeue(c, [call[c] EXCEPT !.pc = "check", !.tokens = call[c].loaded])
    /\ UNCHANGED <<now, ticks, file, issued, authTokens, cbVars, rlVars, extVars>>

GetAccessToken(c) == GetTokensCall(c, "getAccessToken")
Refresh(c) == GetTokensCall(c, "refresh")
GetStatus(c) == GetTokensCall(c, "getStatus")

\* the call sends a refresh_token grant to the token endpoint
SendRefresh(r) ==
    [r EXCEPT !.pc = "fetch", !.turn = 0, !.old = r.tokens, !.checkNow = now,
              !.sentRT = r.tokens.refreshToken,
              !.fetches = @ + 1, !.refreshes = @ + 1]

\* getAccessToken after `await this.getTokens()`, up to the refresh request
GetAccessTokenCheck(c) ==
    /\ call[c].op = "getAccessToken"
    /\ call[c].pc = "check"
    /\ MyTurn(c)
    /\ LET r == [call[c] EXCEPT !.old = call[c].tokens, !.checkNow = now]
           d == GatDecision(r.tokens, now)
       IN call' = Requeue(c,
              CASE d = "unauthenticated" -> Done(r, ErrResult(ErrNotAuthenticated))
                [] d = "expired_norefresh" -> Done(r, ErrResult(ErrExpiredNoRefresh))
                [] d = "refresh" -> SendRefresh(r)
                [] OTHER -> Done(r, OkResult(r.tokens.accessToken)))
    /\ UNCHANGED <<now, ticks, file, cachedTokens, issued, authTokens, cbVars, rlVars, extVars>>

\* refresh() after `await this.getTokens()`
RefreshCheck(c) ==
    /\ call[c].op = "refresh"
    /\ call[c].pc = "check"
    /\ MyTurn(c)
    /\ LET r == [call[c] EXCEPT !.old = call[c].tokens, !.checkNow = now]
       IN call' = Requeue(c,
              IF r.tokens = NoTokens \/ r.tokens.refreshToken = 0
              THEN Done(r, ErrResult(ErrNoRefreshToken))
              ELSE SendRefresh(r))
    /\ UNCHANGED <<now, ticks, file, cachedTokens, issued, authTokens, cbVars, rlVars, extVars>>

\* getStatus() after `await this.getTokens()`
GetStatusCheck(c) ==
    /\ call[c].op = "getStatus"
    /\ call[c].pc = "check"
    /\ MyTurn(c)
    /\ call' = Requeue(c,
           [Done(call[c], OkResult(0)) EXCEPT !.old = call[c].tokens, !.checkNow = now,
                                        !.status = StatusOf(call[c].tokens, now)])
    /\ UNCHANGED <<now, ticks, file, cachedTokens, issued, authTokens, cbVars, rlVars, extVars>>

\* the token endpoint answers the refresh grant with 2xx: oauthFlow.refreshToken
\* maps the body, then the caller runs store.save(tokens) up to its await
RefreshResponse(c, rt, ein) ==
    /\ call[c].pc = "fetch"
    /\ issued < MaxIssued
    /\ rt \in {0, issued + 1}
    /\ issued' = issued + 1
    /\ LET data == TokenResponse(issued + 1, rt, ein)
           t == RefreshMap(data, call[c].sentRT, now)
       IN /\ \E iv \in IVs : file' = SaveRecord(t, iv)
          /\ call' = [call EXCEPT ![c] =
                 [@ EXCEPT !.pc = "saved", !.turn = NextTurn, !.tokens = t, !.resp = data]]
    /\ UNCHANGED <<now, ticks, cachedTokens, authTokens, cbVars, rlVars, extVars>>

\* the refresh grant fails (non-2xx or network error): the error propagates
RefreshFailure(c) ==
    /\ call[c].pc = "fetch"
    /\ call' = [call EXCEPT ![c] = Done(@, ErrResult(ErrRefreshFailed))]
    /\ UNCHANGED <<now, ticks, file, cachedTokens, issued, authTokens, cbVars, rlVars, extVars>>

\* the same without the assignment to this.cachedTokens
AssignSaved_KeepCache(c) ==
    /\ call[c].pc = "saved"
    /\ MyTurn(c)
    /\ authTokens' = IF call[c].op \in {"authenticate", "login"}
                     THEN call[c].tokens ELSE authTokens
    /\ call' = Requeue(c, Done(call[c], OkResult(call[c].tokens.accessToken)))
    /\ UNCHANGED <<now, ticks, file, cachedTokens, issued, cbVars, rlVars, extVars>>

\* after `await this.store.save(..)`: this.cachedTokens = tokens; return
AssignSaved(c) ==
    /\ call[c].pc = "saved"
    /\ MyTurn(c)
    /\ cachedTokens' = call[c].tokens
    /\ authTokens' = IF call[c].op \in {"authenticate", "login"}
                     THEN call[c].tokens ELSE authTokens
    /\ call' = Requeue(c, Done(call[c], OkResult(call[c].tokens.accessToken)))
    /\ UNCHANGED <<now, ticks, file, issued, cbVars, rlVars, extVars>>

\* logout() that leaves the token file in place
Logout_CacheOnly(c) ==
    /\ call[c].pc = "idle"
    /\ call' = [call EXCEPT ![c] = [StartCall("logout") EXCEPT !.pc = "clearing", !.turn = NextTurn]]
    /\ UNCHANGED <<now, ticks, file, cachedTokens, issued, authTokens, cbVars, rlVars, extVars>>

\* logout() up to its await: store.clear()
Logout(c) ==
    /\ call[c].pc = "idle"
    /\ file' = Clear(file)
    /\ call' = [call EXCEPT ![c] = [StartCall("logout") EXCEPT !.pc = "clearing", !.turn = NextTurn]]
    /\ UNCHANGED <<now, ticks, cachedTokens, issued, authTokens, cbVars, rlVars, extVars>>

\* logout() that clears the store and leaves this.cachedTokens alone
LogoutAssign_KeepCache(c) ==
    /\ call[c].pc = "clearing"
    /\ MyTurn(c)
    /\ call' = Requeue(c, Done(call[c], OkResult(0)))
    /\ UNCHANGED <<now, ticks, file, cachedTokens, issued, authTokens, cbVars, rlVars, extVars>>

\* logout() after its await: this.cachedTokens = null
LogoutAssign(c) ==
    /\ call[c].pc = "clearing"
    /\ MyTurn(c)
    /\ cachedTokens' = NoTokens
    /\ call' = Requeue(c, Done(call[c], OkResult(0)))
    /\ UNCHANGED <<now, ticks, file, issued, authTokens, cbVars, rlVars, extVars>>

\* setAccessToken(accessToken, expiresInSeconds) up to the await of store.save
SetAccessToken(c, ein) ==
    /\ call[c].pc = "idle"
    /\ issued < MaxIssued
    /\ issued' = issued + 1
    /\ LET t == MkTokens(issued + 1, 0, ein, now + ein * 1000)
       IN /\ \E iv \in IVs : file' = SaveRecord(t, iv)
          /\ call' = [call EXCEPT ![c] =
                 [StartCall("setAccessToken") EXCEPT !.pc = "saved", !.turn = NextTurn, !.tokens = t]]
    /\ UNCHANGED <<now, ticks, cachedTokens, authTokens, cbVars, rlVars, extVars>>

\* authenticate() up to `await callbackPromise`: the listener is started
AuthenticateStart(c, op) ==
    /\ call[c].pc = "idle"
    /\ WaitForCallbackStart(DefaultTimeoutMs)
    /\ call' = [call EXCEPT ![c] =
           [StartCall(op) EXCEPT !.pc = "wait_cb", !.listenStarted = TRUE]]
    /\ UNCHANGED <<file, cachedTokens, issued, authTokens, rlVars, extVars>>

\* TokenManager.authenticate() called on its own
Authenticate(c) == AuthenticateStart(c, "authenticate")

\* the login action with open(authUrl) ahead of client.authenticate()
Login_BrowserFirst(c) ==
    /\ call[c].pc = "idle"
    /\ call' = [call EXCEPT ![c] =
           [StartCall("login") EXCEPT !.pc = "done", !.opened = TRUE,
                                      !.result = ErrResult(ErrServer)]]
    /\ UNCHANGED <<now, ticks, file, cachedTokens, issued, authTokens, cbVars, rlVars, extVars>>

\* `anc auth login` (auth.ts:18-26): client.authenticate() is called first
Login(c) == AuthenticateStart(c, "login")

\* `anc auth login` (auth.ts:29): open(authUrl)
LoginOpenBrowser(c) ==
    /\ call[c].op = "login"
    /\ call[c].listenStarted
    /\ ~call[c].opened
    /\ call' = [call EXCEPT ![c] = [@ EXCEPT !.opened = TRUE]]
    /\ UNCHANGED <<now, ticks, file, cachedTokens, issued, authTokens, cbVars, rlVars, extVars>>

\* the callback promise resolved: exchangeCode(code) posts the grant
AuthCallbackResolved(c) ==
    /\ call[c].pc = "wait_cb"
    /\ promise.state = "resolved"
    /\ call' = [call EXCEPT ![c] = [@ EXCEPT !.pc = "exchange", !.fetches = @ + 1]]
    /\ promise' = NoPromise        \* the awaited promise is dropped
    /\ UNCHANGED <<now, ticks, file, cachedTokens, issued, authTokens, rlVars,
                   srv, errPending, closePending, timer, deadline, httpStatus, listens, extVars>>

\* the callback promise rejected: authenticate() throws
AuthCallbackRejected(c) ==
    /\ call[c].pc = "wait_cb"
    /\ promise.state = "rejected"
    /\ call' = [call EXCEPT ![c] = Done(@, ErrDetail(promise.reason, promise.detail))]
    /\ promise' = NoPromise        \* the awaited promise is dropped
    /\ UNCHANGED <<now, ticks, file, cachedTokens, issued, authTokens, rlVars,
                   srv, errPending, closePending, timer, deadline, httpStatus, listens, extVars>>

\* the token endpoint answers the code grant with 2xx: exchangeCode maps the
\* body, then authenticate runs store.save(tokens) up to its await
ExchangeResponse(c, rt, ein) ==
    /\ call[c].pc = "exchange"
    /\ issued < MaxIssued
    /\ rt \in {0, issued + 1}
    /\ issued' = issued + 1
    /\ LET data == TokenResponse(issued + 1, rt, ein)
           t == ExchangeMap(data, now)
       IN /\ \E iv \in IVs : file' = SaveRecord(t, iv)
          /\ call' = [call EXCEPT ![c] =
                 [@ EXCEPT !.pc = "saved", !.turn = NextTurn, !.tokens = t, !.resp = data]]
    /\ UNCHANGED <<now, ticks, cachedTokens, authTokens, cbVars, rlVars, extVars>>

\* the code grant fails: authenticate() throws
ExchangeFailure(c) ==
    /\ call[c].pc = "exchange"
    /\ call' = [call EXCEPT ![c] = Done(@, ErrResult(ErrExchangeFailed))]
    /\ UNCHANGED <<now, ticks, file, cachedTokens, issued, authTokens, cbVars, rlVars, extVars>>

\* the caller has its result and is free to make another call
Return(c) ==
    /\ call[c].pc = "done"
    /\ call[c].op = "login" => call[c].opened
    /\ call' = [call EXCEPT ![c] = IdleCall]
    /\ UNCHANGED <<now, ticks, file, cachedTokens, issued, authTokens, cbVars, rlVars, extVars>>

(* ------------- FileStore called directly (part_012:29-83) -------------- *)
\* no save since the file was last cleared
NoSaved == [last |-> NoTokens, prev |-> NoTokens]

\* the TokenSets a caller hands to save()
SaveChoices ==
    {MkTokens(at, rt, ein, T0 + ein * 1000) :
        at \in 1..2, rt \in 0..1, ein \in SetExpiresChoices}

\* store.save(t): synchronous up to its return
FsSave(c, t, iv) ==
    /\ call[c].pc = "idle"
    /\ file' = SaveRecord(t, iv)
    /\ saved' = [last |-> t, prev |-> saved.last]
    /\ call' = [call EXCEPT ![c] =
           [StartCall("save") EXCEPT !.pc = "done", !.tokens = t, !.result = OkResult(0)]]
    /\ UNCHANGED <<now, ticks, cachedTokens, issued, authTokens, cbVars, rlVars,
                   httpVars, cacheVars, apiVars>>

\* store.load(): returns the TokenSet or null; a file that cannot be parsed
\* or decrypted is removed in the catch block
FsLoad(c) ==
    /\ call[c].pc = "idle"
    /\ file' = FileAfterLoad(file)
    /\ call' = [call EXCEPT ![c] =
           [StartCall("load") EXCEPT !.pc = "done", !.loaded = Load(file),
                                    !.result = OkResult(0)]]
    /\ UNCHANGED <<now, ticks, cachedTokens, issued, authTokens, cbVars, rlVars,
                   extVars>>

\* store.clear()
FsClear(c) ==
    /\ call[c].pc = "idle"
    /\ file' = Clear(file)
    /\ saved' = NoSaved
    /\ call' = [call EXCEPT ![c] =
           [StartCall("clear") EXCEPT !.pc = "done", !.result = OkResult(0)]]
    /\ UNCHANGED <<now, ticks, cachedTokens, issued, authTokens, cbVars, rlVars,
                   httpVars, cacheVars, apiVars>>

\* store.exists(): reported as token 1 (true) or 0 (false)
FsExists(c) ==
    /\ call[c].pc = "idle"
    /\ call' = [call EXCEPT ![c] =
           [StartCall("exists") EXCEPT !.pc = "done",
                                      !.result = OkResult(IF Exists(file) THEN 1 ELSE 0)]]
    /\ UNCHANGED <<now, ticks, file, cachedTokens, issued, authTokens, cbVars, rlVars,
                   extVars>>

\* the file is damaged or replaced from outside the program
Corrupt(g) ==
    /\ g \in Corruptions(file)
    /\ file' = g
    /\ saved' = NoSaved
    /\ UNCHANGED <<now, ticks, cachedTokens, issued, call, authTokens, cbVars, rlVars,
                   httpVars, cacheVars, apiVars>>

(* ------------------- RateLimiter (src/client/RateLimiter.ts) ----------- *)
\* an execute() call: where it is; when its setTimeout was set, its place
\* among the pending timers, and when it is due; its place among the callers
\* that were queued (0: it was not queued); how the previous call of this
\* caller ended
IdleOp == [pc |-> "idle", setAt |-> 0, timerId |-> 0, wakeAt |-> 0, ticket |-> 0,
           out |-> "none"]

Outcomes == {"value", "error"}

\* constructor: this.minIntervalMs = (60 * 1000) / rpm
MinIntervalMs(rpm) == (60 * 1000) \div rpm

\* the number the next queued caller gets
NextTicket ==
    LET used == {rl[p].ticket : p \in Ops}
    IN 1 + (CHOOSE m \in used : \A n \in used : n <= m)

\* the number the next timer gets
NextTimerId ==
    LET used == {rl[p].timerId : p \in Ops}
    IN 1 + (CHOOSE m \in used : \A n \in used : n <= m)

\* timer p fires before timer o: it is due earlier, or it is due in the same
\* millisecond, was set with the same delay and was set first (timers of one
\* delay are kept in a list in the order they were set; lists that are due
\* in the same millisecond run in either order)
FiresBefore(p, o) ==
    \/ rl[p].wakeAt < rl[o].wakeAt
    \/ /\ rl[p].wakeAt = rl[o].wakeAt
       /\ rl[p].setAt = rl[o].setAt
       /\ rl[p].timerId < rl[o].timerId

\* this.lastRequestTime = Date.now(), at time n
Admit(o, n) ==
    /\ lastRequestTime' = n
    /\ gap' = IF lastRequestTime = 0 THEN gap ELSE n - lastRequestTime
    /\ rl' = [rl EXCEPT ![o] = [@ EXCEPT !.pc = "admitted", !.setAt = 0, !.timerId = 0, !.wakeAt = 0,
                                       !.out = "none"]]

\* waitForSlot, second half: wait for the rate limit interval
IntervalCheck(o) ==
    LET elapsed == now - lastRequestTime
    IN IF elapsed < cfg.minIntervalMs
       THEN /\ rl' = [rl EXCEPT ![o] =
                   [@ EXCEPT !.pc = "sleeping", !.out = "none",
                             !.setAt = now, !.timerId = NextTimerId,
                             !.wakeAt = now + (cfg.minIntervalMs - elapsed)]]
            /\ UNCHANGED <<lastRequestTime, gap>>
       ELSE Admit(o, now)

\* execute(fn) up to its first suspension inside waitForSlot
Execute(o) ==
    /\ rl[o].pc = "idle"
    /\ execs < MaxExec
    /\ execs' = execs + 1
    /\ IF running >= cfg.maxConcurrent
       THEN /\ queue' = Append(queue, o)
            /\ rl' = [rl EXCEPT ![o] =
                   [IdleOp EXCEPT !.pc = "queued", !.ticket = NextTicket]]
            /\ UNCHANGED <<lastRequestTime, gap>>
       ELSE /\ IntervalCheck(o)
            /\ UNCHANGED queue
    /\ UNCHANGED <<now, ticks, tmVars, cbVars, cfg, running, extVars>>

\* a queued caller whose resolve() was called runs on; the continuations run
\* in the order of the resolve() calls
Resume(o) ==
    /\ rl[o].pc = "resumed"
    /\ \A p \in Ops : rl[p].pc = "resumed" => rl[p].ticket >= rl[o].ticket
    /\ IntervalCheck(o)
    /\ UNCHANGED <<now, ticks, tmVars, cbVars, cfg, running, queue, execs, extVars>>

\* the setTimeout of waitForSlot fires when it is due, after the timers that
\* fire before it
Wake(o) ==
    /\ rl[o].pc = "sleeping"
    /\ ~MicrotaskPending
    /\ \A p \in Ops : rl[p].pc = "sleeping" => ~FiresBefore(p, o)
    /\ now' = Max(now, rl[o].wakeAt)
    /\ Admit(o, now')
    /\ UNCHANGED <<ticks, tmVars, cbVars, cfg, running, queue, execs, extVars>>

\* execute after `await this.waitForSlot()`: this.running++; fn() is called
Start(o) ==
    /\ rl[o].pc = "admitted"
    /\ running' = running + 1
    /\ rl' = [rl EXCEPT ![o] = [@ EXCEPT !.pc = "running"]]
    /\ UNCHANGED <<now, ticks, tmVars, cbVars, cfg, lastRequestTime, queue, execs, gap, extVars>>

\* the same with a finally block that does not call releaseSlot()
Finish_NoRelease(o, res) ==
    /\ rl[o].pc = "running"
    /\ running' = running - 1
    /\ rl' = [rl EXCEPT ![o] = [IdleOp EXCEPT !.out = res]]
    /\ UNCHANGED <<now, ticks, tmVars, cbVars, cfg, lastRequestTime, queue, execs, gap, extVars>>

\* the same with a finally block that gives the slot back only after success
Finish_LeakOnError(o, res) ==
    /\ rl[o].pc = "running"
    /\ running' = IF res = "error" THEN running ELSE running - 1
    /\ IF queue # <<>> /\ res # "error"
       THEN /\ queue' = Tail(queue)
            /\ rl' = [rl EXCEPT ![o] = [IdleOp EXCEPT !.out = res],
                                ![Head(queue)] = [@ EXCEPT !.pc = "resumed"]]
       ELSE /\ UNCHANGED queue
            /\ rl' = [rl EXCEPT ![o] = [IdleOp EXCEPT !.out = res]]
    /\ UNCHANGED <<now, ticks, tmVars, cbVars, cfg, lastRequestTime, execs, gap, extVars>>

\* fn() resolves (res = "value") or rejects (res = "error"); execute settles
\* the same way after its finally block: this.running--; releaseSlot()
Finish(o, res) ==
    /\ rl[o].pc = "running"
    /\ running' = running - 1
    /\ IF queue # <<>>
       THEN /\ queue' = Tail(queue)
            /\ rl' = [rl EXCEPT ![o] = [IdleOp EXCEPT !.out = res],
                                ![Head(queue)] = [@ EXCEPT !.pc = "resumed"]]
       ELSE /\ UNCHANGED queue
            /\ rl' = [rl EXCEPT ![o] = [IdleOp EXCEPT !.out = res]]
    /\ UNCHANGED <<now, ticks, tmVars, cbVars, cfg, lastRequestTime, execs, gap, extVars>>

(* ------------------------ Cache (src/client/Cache.ts) ------------------ *)
\* the JavaScript null, the miss sentinel of get()
Null == "null"

\* an entry of the Map, or the absence of one
NoEntry == [present |-> FALSE, value |-> Null, expiresAt |-> 0]
Entry(v, eat) == [present |-> TRUE, value |-> v, expiresAt |-> eat]

\* constructor: defaultTtlMinutes = 5
defaultTtlMs == 5 * 60 * 1000

\* a ttlMs argument that is left out
NoTtl == -1

\* ttlMs ?? this.defaultTtlMs
TtlOf(ttlMs) == IF ttlMs = NoTtl THEN defaultTtlMs ELSE ttlMs

\* the expiry test of get() with >= for >
Expired_Ge(e, n) == n >= e.expiresAt

\* get(): Date.now() > entry.expiresAt
Expired(e, n) == n > e.expiresAt

\* get(key) at time n: the value returned
GetValue(st, k, n) ==
    IF ~st[k].present THEN Null
    ELSE IF Expired(st[k], n) THEN Null
    ELSE st[k].value

\* get(key) at time n: the Map afterwards (an expired entry is deleted)
StoreAfterGet(st, k, n) ==
    IF st[k].present /\ Expired(st[k], n) THEN [st EXCEPT ![k] = NoEntry] ELSE st

\* get(key): the counters afterwards
CountGet(k) ==
    /\ hits' = IF store[k].present /\ ~Expired(store[k], now) THEN hits + 1 ELSE hits
    /\ misses' = IF store[k].present /\ ~Expired(store[k], now) THEN misses ELSE misses + 1
    /\ evictions' = IF store[k].present /\ Expired(store[k], now)
                     THEN evictions + 1 ELSE evictions

\* set(key, value, ttlMs) at time n: the Map afterwards
StoreAfterSet(st, k, v, ttlMs, n) == [st EXCEPT ![k] = Entry(v, n + TtlOf(ttlMs))]

\* the keys, values and ttlMs arguments the callers use
CacheKeys == {"a", "b"}
CacheValues == {Null, "v1"}
TtlChoices == {NoTtl, 0}

NoSet == [made |-> FALSE, value |-> Null, at |-> 0, ttl |-> NoTtl]

IdleCacheCall ==
    [op |-> "none", pc |-> "idle", key |-> "", ttl |-> NoTtl,
     ret |-> Null,              \* the value returned
     failed |-> FALSE,          \* the call rejected
     computes |-> 0]            \* invocations of compute() by this call

\* cache.get(k)
CacheGet(c, k) ==
    /\ cacheCall[c].pc = "idle"
    /\ hits + misses < MaxLookups
    /\ store' = StoreAfterGet(store, k, now)
    /\ CountGet(k)
    /\ cacheCall' = [cacheCall EXCEPT ![c] =
           [IdleCacheCall EXCEPT !.op = "get", !.pc = "done", !.key = k,
                                 !.ret = GetValue(store, k, now)]]
    /\ UNCHANGED <<now, ticks, tmVars, cbVars, rlVars, fsVars, httpVars, lastSet, apiVars>>

\* cache.set(k, v, ttlMs)
CacheSet(k, v, ttlMs) ==
    /\ store' = StoreAfterSet(store, k, v, ttlMs, now)
    /\ lastSet' = [lastSet EXCEPT ![k] = [made |-> TRUE, value |-> v, at |-> now, ttl |-> ttlMs]]
    /\ UNCHANGED <<now, ticks, tmVars, cbVars, rlVars, fsVars, httpVars,
                   hits, misses, evictions, cacheCall, apiVars>>

\* cache.delete(k)
CacheDelete(k) ==
    /\ store[k].present \/ lastSet[k].made
    /\ store' = [store EXCEPT ![k] = NoEntry]
    /\ lastSet' = [lastSet EXCEPT ![k] = NoSet]
    /\ UNCHANGED <<now, ticks, tmVars, cbVars, rlVars, fsVars, httpVars,
                   hits, misses, evictions, cacheCall, apiVars>>

\* cache.clear()
CacheClear ==
    /\ \E k \in CacheKeys : store[k].present \/ lastSet[k].made
    /\ store' = [k \in CacheKeys |-> NoEntry]
    /\ lastSet' = [k \in CacheKeys |-> NoSet]
    /\ UNCHANGED <<now, ticks, tmVars, cbVars, rlVars, fsVars, httpVars,
                   hits, misses, evictions, cacheCall, apiVars>>

\* getOrCompute(k, compute, ttlMs) up to its await: get(k); unless the value
\* is not null, compute() is invoked
GetOrCompute(c, k, ttlMs) ==
    /\ cacheCall[c].pc = "idle"
    /\ hits + misses < MaxLookups
    /\ store' = StoreAfterGet(store, k, now)
    /\ CountGet(k)
    /\ LET cached == GetValue(store, k, now)
           r == [IdleCacheCall EXCEPT !.op = "getOrCompute", !.key = k, !.ttl = ttlMs]
       IN cacheCall' = [cacheCall EXCEPT ![c] =
              IF cached # Null
              THEN [r EXCEPT !.pc = "done", !.ret = cached]
              ELSE [r EXCEPT !.pc = "computing", !.computes = 1]]
    /\ UNCHANGED <<now, ticks, tmVars, cbVars, rlVars, fsVars, httpVars, lastSet, apiVars>>

\* getOrCompute that stores its result only when the key has no entry
ComputeResolves_KeepFirst(c, v) ==
    /\ cacheCall[c].pc = "computing"
    /\ LET k == cacheCall[c].key
           ttlMs == cacheCall[c].ttl
       IN /\ store' = IF store[k].present THEN store
                       ELSE StoreAfterSet(store, k, v, ttlMs, now)
          /\ lastSet' = [lastSet EXCEPT ![k] =
                 [made |-> TRUE, value |-> v, at |-> now, ttl |-> ttlMs]]
    /\ cacheCall' = [cacheCall EXCEPT ![c] = [@ EXCEPT !.pc = "done", !.ret = v]]
    /\ UNCHANGED <<now, ticks, tmVars, cbVars, rlVars, fsVars, httpVars,
                   hits, misses, evictions, apiVars>>

\* compute() resolves with v: this.set(key, value, ttlMs); return value
ComputeResolves(c, v) ==
    /\ cacheCall[c].pc = "computing"
    /\ LET k == cacheCall[c].key
           ttlMs == cacheCall[c].ttl
       IN /\ store' = StoreAfterSet(store, k, v, ttlMs, now)
          /\ lastSet' = [lastSet EXCEPT ![k] =
                 [made |-> TRUE, value |-> v, at |-> now, ttl |-> ttlMs]]
    /\ cacheCall' = [cacheCall EXCEPT ![c] = [@ EXCEPT !.pc = "done", !.ret = v]]
    /\ UNCHANGED <<now, ticks, tmVars, cbVars, rlVars, fsVars, httpVars,
                   hits, misses, evictions, apiVars>>

\* compute() rejects: getOrCompute rejects and nothing is stored
ComputeRejects(c) ==
    /\ cacheCall[c].pc = "computing"
    /\ cacheCall' = [cacheCall EXCEPT ![c] = [@ EXCEPT !.pc = "done", !.failed = TRUE]]
    /\ UNCHANGED <<now, ticks, tmVars, cbVars, rlVars, fsVars, httpVars,
                   store, hits, misses, evictions, lastSet, apiVars>>

\* the caller has its result
CacheReturn(c) ==
    /\ cacheCall[c].pc = "done"
    /\ cacheCall' = [cacheCall EXCEPT ![c] = IdleCacheCall]
    /\ UNCHANGED <<now, ticks, tmVars, cbVars, rlVars, fsVars, httpVars,
                   store, hits, misses, evictions, lastSet, apiVars>>

(* ---------------- HttpClient request pipeline (part_009) --------------- *)
\* get/post/put/patch/delete/download: rateLimiter.execute(() => client.<verb>(..)),
\* where the request interceptor awaits tokenManager.getAccessToken() first.
\* Call h runs as operation h of the rate limiter and as caller h of the
\* TokenManager
HttpCalls == Callers \cap Ops

ErrHttp == "Request failed"

IdleHttp ==
    [pc |-> "idle",
     bearer |-> 0,              \* the token in the Authorization header
     dispatches |-> 0,          \* requests handed to the transport
     err |-> ""]                \* the error fn() rejected with

\* a call of one of the verbs: execute(fn)
HttpRequest(h) ==
    /\ http[h].pc = "idle"
    /\ call[h].pc = "idle"
    /\ Execute(h)

\* fn() runs: the interceptor calls getAccessToken()
Interceptor(h) ==
    /\ rl[h].pc = "running"
    /\ http[h].pc = "idle"
    /\ GetAccessToken(h)

\* the interceptor without its token check: the request goes out although
\* getAccessToken() threw
HttpAuthFailed_Dispatch(h) ==
    /\ http[h].pc = "idle"
    /\ call[h].op = "getAccessToken"
    /\ call[h].pc = "done"
    /\ call[h].result.kind = "error"
    /\ http' = [http EXCEPT ![h] = [@ EXCEPT !.pc = "sent", !.dispatches = @ + 1]]
    /\ call' = [call EXCEPT ![h] = IdleCall]
    /\ UNCHANGED <<now, ticks, file, cachedTokens, issued, authTokens, cbVars, rlVars,
                   fsVars, cacheVars, apiVars>>

\* getAccessToken() threw: the interceptor rejects, no request is sent and
\* fn() rejects with that error
HttpAuthFailed(h) ==
    /\ http[h].pc = "idle"
    /\ call[h].op = "getAccessToken"
    /\ call[h].pc = "done"
    /\ call[h].result.kind = "error"
    /\ http' = [http EXCEPT ![h] = [@ EXCEPT !.pc = "failed", !.err = call[h].result.err]]
    /\ call' = [call EXCEPT ![h] = IdleCall]
    /\ UNCHANGED <<now, ticks, file, cachedTokens, issued, authTokens, cbVars, rlVars,
                   fsVars, cacheVars, apiVars>>

\* getAccessToken() returned: Authorization = Bearer <token>; the request is sent
HttpDispatch(h) ==
    /\ http[h].pc = "idle"
    /\ call[h].op = "getAccessToken"
    /\ call[h].pc = "done"
    /\ call[h].result.kind = "ok"
    /\ http' = [http EXCEPT ![h] =
           [@ EXCEPT !.pc = "sent", !.bearer = call[h].result.token, !.dispatches = @ + 1]]
    /\ call' = [call EXCEPT ![h] = IdleCall]
    /\ UNCHANGED <<now, ticks, file, cachedTokens, issued, authTokens, cbVars, rlVars,
                   fsVars, cacheVars, apiVars>>

\* the response arrives: 2xx resolves with response.data, anything else (or
\* a network error) makes axios reject
HttpResponse(h, ok) ==
    /\ http[h].pc = "sent"
    /\ http' = [http EXCEPT ![h] =
           [@ EXCEPT !.pc = "responded", !.err = IF ok THEN "" ELSE ErrHttp]]
    /\ UNCHANGED <<now, ticks, tmVars, cbVars, rlVars, fsVars, cacheVars, apiVars>>

\* fn() has settled: the finally block of execute runs and execute settles
HttpFinish(h) ==
    /\ http[h].pc \in {"responded", "failed"}
    /\ Finish(h, IF http[h].err = "" THEN "value" ELSE "error")

\* the caller of the verb has its result
HttpReturn(h) ==
    /\ http[h].pc \in {"responded", "failed"}
    /\ rl[h].pc = "idle"
    /\ http' = [http EXCEPT ![h] = IdleHttp]
    /\ UNCHANGED <<now, ticks, tmVars, cbVars, rlVars, fsVars, cacheVars, apiVars>>

(* ---------------------- getConfig (src/utils/config.ts) ---------------- *)
\* the settings of the model: two that are required, one with a default
Settings == {"clientId", "clientSecret", "baseUrl"}

\* a setting that a source does not define (undefined, or the empty string)
Undef == ""

\* the built-in value of a setting that no source defines
DefaultOf(k) == IF k = "baseUrl" THEN "default" ELSE Undef

\* a source that defines the settings in ks, each with the value v
SourceWith(ks, v) == [k \in Settings |-> IF k \in ks THEN v ELSE Undef]

NoConfig == [kind |-> "none"]

\* env: the environment the process was started with; saved: the global
\* config.json; dotenv: the .env of the current directory; procEnv: process.env
IdleConf ==
    [env |-> SourceWith({}, Undef), saved |-> SourceWith({}, Undef),
     dotenv |-> SourceWith({}, Undef), procEnv |-> SourceWith({}, Undef),
     cachedConfig |-> NoConfig, out |-> NoConfig, calls |-> 0]

\* dotenvConfig({ path, override: false }): process.env afterwards; a variable
\* that is already set is left alone
DotenvLoad(penv, dotenv) ==
    [k \in Settings |-> IF penv[k] # Undef THEN penv[k] ELSE dotenv[k]]

\* a || b
Or(a, b) == IF a # Undef THEN a ELSE b

\* getConfig() after the .env was loaded: process.env.X || saved?.X || default
ResolveConfig(penv, sv) ==
    IF Or(penv["clientId"], sv["clientId"]) = Undef
       \/ Or(penv["clientSecret"], sv["clientSecret"]) = Undef
    THEN [kind |-> "error"]
    ELSE [kind |-> "config",
          values |-> [k \in Settings |-> Or(Or(penv[k], sv[k]), DefaultOf(k))]]

\* getConfig()
GetConfig ==
    /\ conf.calls < MaxConfigCalls
    /\ IF conf.cachedConfig # NoConfig
       THEN conf' = [conf EXCEPT !.out = conf.cachedConfig, !.calls = @ + 1]
       ELSE LET penv == DotenvLoad(conf.procEnv, conf.dotenv)
                res == ResolveConfig(penv, conf.saved)
            IN conf' = [conf EXCEPT !.procEnv = penv, !.out = res, !.calls = @ + 1,
                                    !.cachedConfig = IF res.kind = "config" THEN res
                                                     ELSE NoConfig]
    /\ UNCHANGED <<baseVars, dc, wfd, ch, tl>>

\* clearConfigCache()
ClearConfigCache ==
    /\ conf.cachedConfig # NoConfig
    /\ conf' = [conf EXCEPT !.cachedConfig = NoConfig, !.out = NoConfig]
    /\ UNCHANGED <<baseVars, dc, wfd, ch, tl>>

(* ------------- DesignCenterApi.updateFile (api/DesignCenterApi.ts) ------ *)
\* pc: "idle", "owner" (the method awaits getOwnerId), "post" (the POST of
\* the method is in flight), "returned", "thrown"; method: the method that
\* updateFile awaits; calls: the methods updateFile has called; posts: the
\* POSTs sent; owner: 'dc:ownerId' is in the cache; acquired / saved:
\* acquireLock / saveFile resolved
IdleDc ==
    [pc |-> "idle", method |-> "", calls |-> <<>>, posts |-> <<>>, owner |-> FALSE,
     acquired |-> FALSE, saved |-> FALSE, updates |-> 0]

\* a method of the three is called: it awaits getOwnerId first
CallDc(r, method) ==
    [r EXCEPT !.pc = "owner", !.method = method, !.calls = Append(@, method)]

\* updateFile(..): cache.delete, then acquireLock is called
UpdateFile ==
    /\ dc.pc \in {"idle", "returned", "thrown"}
    /\ dc.updates < MaxUpdates
    /\ dc' = CallDc([IdleDc EXCEPT !.owner = dc.owner, !.updates = dc.updates + 1],
                    "acquireLock")
    /\ UNCHANGED <<baseVars, conf, wfd, ch, tl>>

\* variant: the lock is released only after a save that succeeded
MethodSettled_NoFinally(r, m, ok) ==
    IF m = "acquireLock"
    THEN IF ok THEN CallDc([r EXCEPT !.acquired = TRUE], "saveFile")
         ELSE [r EXCEPT !.pc = "thrown"]
    ELSE IF m = "saveFile"
    THEN IF ok THEN CallDc([r EXCEPT !.saved = TRUE], "releaseLock")
         ELSE [r EXCEPT !.pc = "thrown"]
    ELSE [r EXCEPT !.pc = IF ok /\ r.saved THEN "returned" ELSE "thrown"]

\* the method m of updateFile resolved (ok) or rejected
MethodSettled(r, m, ok) ==
    IF m = "acquireLock"
    THEN IF ok THEN CallDc([r EXCEPT !.acquired = TRUE], "saveFile")
         ELSE [r EXCEPT !.pc = "thrown"]
    ELSE IF m = "saveFile"
    THEN CallDc([r EXCEPT !.saved = ok], "releaseLock")
    ELSE [r EXCEPT !.pc = IF ok /\ r.saved THEN "returned" ELSE "thrown"]

\* getOwnerId() of method m: a cache hit, or GET /accounts/api/me, which
\* fills the cache or fails and makes the method reject before its POST
OwnerId(m, ok) ==
    /\ dc.pc = "owner" /\ dc.method = m
    /\ dc.owner => ok
    /\ dc' = IF ok THEN [dc EXCEPT !.pc = "post", !.owner = TRUE,
                                    !.posts = Append(@, m)]
              ELSE MethodSettled(dc, m, FALSE)
    /\ UNCHANGED <<baseVars, conf, wfd, ch, tl>>

\* the answer to the POST of method m
PostSettles(m, ok) ==
    /\ dc.pc = "post" /\ dc.method = m
    /\ dc' = MethodSettled(dc, m, ok)
    /\ UNCHANGED <<baseVars, conf, wfd, ch, tl>>

\* the cache entry 'dc:ownerId' runs out
OwnerExpires ==
    /\ dc.owner
    /\ dc.pc # "idle"
    /\ dc' = [dc EXCEPT !.owner = FALSE]
    /\ UNCHANGED <<baseVars, conf, wfd, ch, tl>>

(* ------------ CloudHub2Api.waitForDeployment (api/CloudHub2Api.ts) ------ *)
pollIntervalMs == 5000

\* deployment.status as the platform reports it
Statuses == {"APPLYING", "UNDEPLOYED", "APPLIED", "RUNNING", "FAILED", "DEPLOYMENT_FAILED"}
AppliedStatuses == {"APPLIED", "RUNNING"}
FailedStatuses == {"FAILED", "DEPLOYMENT_FAILED"}

\* pc: "idle", "loop" (at the while condition), "polling" (getDeployment in
\* flight), "sleeping" (in the setTimeout), "returned", "failed" (threw
\* 'Deployment failed'), "timedout" (threw 'Deployment timed out'); last: the
\* status of the last poll ("" before the first); wakeAt: when the timer is due
IdleWfd ==
    [pc |-> "idle", startTime |-> 0, timeoutMs |-> 0, polls |-> 0, last |-> "",
     wakeAt |-> 0, waits |-> 0]

\* waitForDeployment(orgId, envId, deploymentId, onStatus, timeoutMs)
WaitForDeployment(timeoutMs) ==
    /\ wfd.pc \in {"idle", "returned", "failed", "timedout"}
    /\ wfd.waits < MaxWaits
    /\ wfd' = [IdleWfd EXCEPT !.pc = "loop", !.startTime = now,
                              !.timeoutMs = timeoutMs, !.waits = wfd.waits + 1]
    /\ UNCHANGED <<baseVars, conf, dc, ch, tl>>

\* while (Date.now() - startTime < timeoutMs): getDeployment is called, or
\* the loop is left and the timeout error thrown
LoopTest ==
    /\ wfd.pc = "loop"
    /\ wfd' = IF now - wfd.startTime < wfd.timeoutMs
              THEN [wfd EXCEPT !.pc = "polling", !.polls = @ + 1]
              ELSE [wfd EXCEPT !.pc = "timedout"]
    /\ UNCHANGED <<baseVars, conf, dc, ch, tl>>

\* variant: a failed deployment is polled again until the timeout
AfterPoll_IgnoreFailed(r, st, t) ==
    IF st \in AppliedStatuses THEN [r EXCEPT !.pc = "returned", !.last = st]
    ELSE [r EXCEPT !.pc = "sleeping", !.last = st, !.wakeAt = t + pollIntervalMs]

\* the loop body after getDeployment resolved with status st
AfterPoll(r, st, t) ==
    IF st \in AppliedStatuses THEN [r EXCEPT !.pc = "returned", !.last = st]
    ELSE IF st \in FailedStatuses THEN [r EXCEPT !.pc = "failed", !.last = st]
    ELSE [r EXCEPT !.pc = "sleeping", !.last = st, !.wakeAt = t + pollIntervalMs]

\* getDeployment resolves after dt ms with a deployment in status st
PollReturns(st, dt) ==
    /\ wfd.pc = "polling"
    /\ now' = now + dt
    /\ wfd' = AfterPoll(wfd, st, now')
    /\ UNCHANGED <<ticks, tmVars, cbVars, rlVars, fsVars, httpVars, cacheVars, conf, dc, ch, tl>>

\* the setTimeout(resolve, pollIntervalMs) fires
SleepWake ==
    /\ wfd.pc = "sleeping"
    /\ now' = wfd.wakeAt
    /\ wfd' = [wfd EXCEPT !.pc = "loop"]
    /\ UNCHANGED <<ticks, tmVars, cbVars, rlVars, fsVars, httpVars, cacheVars, conf, dc, ch, tl>>

(* ------- CloudHub2Api: getDeployments and the mutating operations ------- *)
\* the cache key `ch2:${orgId}:${envId}` of the one (org, env) of the model
DeploymentsKey == "a"

\* the deployment list of the platform before and after the mutation
ListBefore == "v1"
ListAfter == "v2"

IdleGet == [pc |-> "idle", seen |-> Null, ret |-> Null, late |-> FALSE]

\* server: the list the platform holds; mut: the mutating operation, "idle",
\* "sent" (cache entry deleted, request on its way), "served" (the platform
\* has applied it), "done" (the call has resolved), "failed"; get: per caller
\* the getDeployments call, "idle", "sent", "served" (the platform has
\* answered with the list in seen), "done" (resolved with ret); late: the
\* call started after the mutation had completed
IdleCh == [server |-> ListBefore, mut |-> "idle", get |-> [c \in Callers |-> IdleGet]]

\* create/update/deleteDeployment, restartApp, scaleApp up to the await:
\* this.cache.delete(key), then the request is sent
Mutate ==
    /\ ch.mut = "idle"
    /\ store' = [store EXCEPT ![DeploymentsKey] = NoEntry]
    /\ lastSet' = [lastSet EXCEPT ![DeploymentsKey] = NoSet]
    /\ ch' = [ch EXCEPT !.mut = "sent"]
    /\ UNCHANGED <<now, ticks, tmVars, cbVars, rlVars, fsVars, httpVars,
                   hits, misses, evictions, cacheCall, conf, dc, wfd, tl>>

\* the platform applies the mutation
MutationServed ==
    /\ ch.mut = "sent"
    /\ ch' = [ch EXCEPT !.mut = "served", !.server = ListAfter]
    /\ UNCHANGED <<baseVars, conf, dc, wfd, tl>>

\* the mutating call resolves
MutationDone ==
    /\ ch.mut = "served"
    /\ ch' = [ch EXCEPT !.mut = "done"]
    /\ UNCHANGED <<baseVars, conf, dc, wfd, tl>>

\* the platform rejects the mutation: the call rejects, the list is as before
MutationFails ==
    /\ ch.mut = "sent"
    /\ ch' = [ch EXCEPT !.mut = "failed"]
    /\ UNCHANGED <<baseVars, conf, dc, wfd, tl>>

\* getDeployments(orgId, envId) up to its await: cache.getOrCompute looks
\* the key up and, on a miss, sends the GET
GetDeployments(c) ==
    /\ ch.get[c].pc = "idle"
    /\ hits + misses < MaxLookups
    /\ store' = StoreAfterGet(store, DeploymentsKey, now)
    /\ CountGet(DeploymentsKey)
    /\ LET cached == GetValue(store, DeploymentsKey, now)
           r == [IdleGet EXCEPT !.late = (ch.mut = "done")]
       IN ch' = [ch EXCEPT !.get[c] =
              IF cached # Null THEN [r EXCEPT !.pc = "done", !.ret = cached]
              ELSE [r EXCEPT !.pc = "sent"]]
    /\ UNCHANGED <<now, ticks, tmVars, cbVars, rlVars, fsVars, httpVars,
                   lastSet, cacheCall, conf, dc, wfd, tl>>

\* the platform answers the GET with the list it holds
GetServed(c) ==
    /\ ch.get[c].pc = "sent"
    /\ ch' = [ch EXCEPT !.get[c] = [@ EXCEPT !.pc = "served", !.seen = ch.server]]
    /\ UNCHANGED <<baseVars, conf, dc, wfd, tl>>

\* the GET resolves: return response.items || [], which getOrCompute stores
\* under the key and returns
GetResolves(c) ==
    /\ ch.get[c].pc = "served"
    /\ store' = StoreAfterSet(store, DeploymentsKey, ch.get[c].seen, NoTtl, now)
    /\ lastSet' = [lastSet EXCEPT ![DeploymentsKey] =
           [made |-> TRUE, value |-> ch.get[c].seen, at |-> now, ttl |-> NoTtl]]
    /\ ch' = [ch EXCEPT !.get[c] = [@ EXCEPT !.pc = "done", !.ret = ch.get[c].seen]]
    /\ UNCHANGED <<now, ticks, tmVars, cbVars, rlVars, fsVars, httpVars,
                   hits, misses, evictions, cacheCall, conf, dc, wfd, tl>>

\* the caller has its list
GetReturn(c) ==
    /\ ch.get[c].pc = "done"
    /\ ch' = [ch EXCEPT !.get[c] = IdleGet]
    /\ UNCHANGED <<baseVars, conf, dc, wfd, tl>>

(* ------------------- LogsApi.tailLogs (part_016) ------------------------ *)
\* options.intervalMs || 5000
intervalMs == 5000

\* let lastTimestamp = Date.now() - 30000
StartLookback == 30000

\* a line of the log file: one that begins with a timestamp, or a
\* continuation line (a stack trace, a wrapped message) that has none
Line(stamped, ts) == [stamped |-> stamped, ts |-> ts]

\* parseLogLine(line).timestamp at time n: the timestamp the line begins
\* with, or Date.now() for a continuation line
ParseLogLine(line, n) == IF line.stamped THEN line.ts ELSE n

\* pc: "idle", "poll" (downloadLogFile in flight), "sleep" (in the
\* setTimeout); log: the lines of the log file; yielded: per line, the number
\* of batches it was part of; batch: the lines of the batch yielded last;
\* batches: the number of batches yielded
IdleTail ==
    [pc |-> "idle", log |-> <<>>, lastTimestamp |-> 0, yielded |-> <<>>,
     batch |-> {}, batches |-> 0, polls |-> 0]

\* the timestamp of the last entry after the ascending sort
Newest(S) == CHOOSE x \in S : \A y \in S : y <= x

\* the application writes a line to its log
AppendLine(stamped) ==
    /\ Len(tl.log) < MaxLines
    /\ tl' = [tl EXCEPT !.log = Append(@, Line(stamped, now)),
                        !.yielded = Append(@, 0)]
    /\ UNCHANGED <<baseVars, conf, dc, wfd, ch>>

\* tailLogs(..) up to the first download
TailLogs ==
    /\ tl.pc = "idle"
    /\ tl' = [tl EXCEPT !.pc = "poll", !.lastTimestamp = now - StartLookback,
                        !.polls = 1]
    /\ UNCHANGED <<baseVars, conf, dc, wfd, ch>>

\* the lines of the file whose entry is newer than the cursor
NewEntries(r, n) ==
    {i \in 1..Len(r.log) : ParseLogLine(r.log[i], n) > r.lastTimestamp}

\* the loop body after a download that succeeded, at time n
AfterDownload(r, n) ==
    LET new == NewEntries(r, n)
    IN IF new = {} THEN [r EXCEPT !.pc = "sleep"]
       ELSE [r EXCEPT !.pc = "sleep",
                      !.lastTimestamp = Newest({ParseLogLine(r.log[i], n) : i \in new}),
                      !.yielded = [i \in 1..Len(r.log) |->
                                      IF i \in new THEN r.yielded[i] + 1 ELSE r.yielded[i]],
                      !.batch = new,
                      !.batches = @ + 1]

\* downloadLogFile resolves: the new entries are yielded, if there are any
PollOk ==
    /\ tl.pc = "poll"
    /\ tl' = AfterDownload(tl, now)
    /\ UNCHANGED <<baseVars, conf, dc, wfd, ch>>

\* downloadLogFile rejects: the error is logged
PollFails ==
    /\ tl.pc = "poll"
    /\ tl' = [tl EXCEPT !.pc = "sleep"]
    /\ UNCHANGED <<baseVars, conf, dc, wfd, ch>>

\* the setTimeout(resolve, intervalMs) fires and the next download starts
NextPoll ==
    /\ tl.pc = "sleep"
    /\ tl.polls < MaxPolls
    /\ now' = now + intervalMs
    /\ tl' = [tl EXCEPT !.pc = "poll", !.polls = @ + 1]
    /\ UNCHANGED <<ticks, tmVars, cbVars, rlVars, fsVars, httpVars, cacheVars, conf, dc, wfd, ch>>

\* the process ends and a new one is started (every CLI command is one):
\* a new TokenManager, listener and RateLimiter over the same token file
NewProcess ==
    /\ \A c \in Callers : call[c].pc = "idle"
    /\ cachedTokens' = NoTokens
    /\ srv' = "none"
    /\ errPending' = FALSE
    /\ closePending' = FALSE
    /\ timer' = "unset"
    /\ deadline' = 0
    /\ promise' = NoPromise
    /\ httpStatus' = 0
    /\ running' = 0
    /\ lastRequestTime' = 0
    /\ queue' = <<>>
    /\ rl' = [o \in Ops |-> IdleOp]
    /\ gap' = -1
    /\ http' = [h \in HttpCalls |-> IdleHttp]
    /\ store' = [k \in CacheKeys |-> NoEntry]
    /\ hits' = 0
    /\ misses' = 0
    /\ evictions' = 0
    /\ lastSet' = [k \in CacheKeys |-> NoSet]
    /\ cacheCall' = [c \in Callers |-> IdleCacheCall]
    /\ UNCHANGED <<now, ticks, file, issued, call, authTokens, listens, cfg, execs, saved, apiVars>>

(* --------------------------- specifications ---------------------------- *)
\* the API layer at rest
InitApi == conf = IdleConf /\ dc = IdleDc /\ wfd = IdleWfd /\ ch = IdleCh /\ tl = IdleTail

InitClock == now = T0 /\ ticks = 0

InitTokenManager ==
    /\ cachedTokens = NoTokens
    /\ issued = 0
    /\ call = [c \in Callers |-> IdleCall]
    /\ authTokens = NoTokens

InitListener ==
    /\ srv = "none"
    /\ errPending = FALSE
    /\ closePending = FALSE
    /\ timer = "unset"
    /\ deadline = 0
    /\ promise = NoPromise
    /\ httpStatus = 0
    /\ listens = 0

InitLimiter ==
    /\ running = 0
    /\ lastRequestTime = 0
    /\ queue = <<>>
    /\ rl = [o \in Ops |-> IdleOp]
    /\ execs = 0
    /\ gap = -1

InitFileStore == saved = NoSaved

InitHttp == http = [h \in HttpCalls |-> IdleHttp]

InitCache ==
    /\ store = [k \in CacheKeys |-> NoEntry]
    /\ hits = 0
    /\ misses = 0
    /\ evictions = 0
    /\ lastSet = [k \in CacheKeys |-> NoSet]
    /\ cacheCall = [c \in Callers |-> IdleCacheCall]

InitExt == InitFileStore /\ InitHttp /\ InitCache /\ InitApi

DefaultCfg == [maxConcurrent |-> 10, minIntervalMs |-> MinIntervalMs(100)]

\* the token file is whatever an earlier run left behind
InitSeq ==
    /\ InitClock
    /\ file \in {NoFile, Garbage}
    /\ InitTokenManager
    /\ InitListener
    /\ InitLimiter
    /\ InitExt
    /\ cfg = DefaultCfg

Params == {"", "x"}

\* calls into the TokenManager that do not overlap, and what the world does
\* the requests the listener sees in these runs: the provider's redirect with
\* a code, its redirect with an error, and a stray request
SeqRequests ==
    {<<callbackPath, "x", "x", "", "">>, <<callbackPath, "", "", "x", "">>,
     <<"/", "", "", "", "">>}

NextSeq ==
    \/ \E c \in SeqCallers : SeqStart(c) /\ GetAccessToken(c)
    \/ \E c \in SeqCallers : SeqStart(c) /\ Refresh(c)
    \/ \E c \in SeqCallers : SeqStart(c) /\ GetStatus(c)
    \/ \E c \in SeqCallers : SeqStart(c) /\ Logout(c)
    \/ \E c \in SeqCallers : SeqStart(c) /\ Authenticate(c)
    \/ \E c \in SeqCallers : SeqStart(c) /\ Login(c)
    \/ \E c \in SeqCallers, e \in SetExpiresChoices : SeqStart(c) /\ SetAccessToken(c, e)
    \/ \E c \in SeqCallers : GetTokensAssign(c)
    \/ \E c \in SeqCallers : GetAccessTokenCheck(c)
    \/ \E c \in SeqCallers : RefreshCheck(c)
    \/ \E c \in SeqCallers : GetStatusCheck(c)
    \/ \E c \in SeqCallers, rt \in 0..MaxIssued, e \in ExpiresInChoices : RefreshResponse(c, rt, e)
    \/ \E c \in SeqCallers : RefreshFailure(c)
    \/ \E c \in SeqCallers : AssignSaved(c)
    \/ \E c \in SeqCallers : LogoutAssign(c)
    \/ \E c \in SeqCallers : LoginOpenBrowser(c)
    \/ \E c \in SeqCallers : AuthCallbackResolved(c)
    \/ \E c \in SeqCallers : AuthCallbackRejected(c)
    \/ \E c \in SeqCallers, rt \in 0..MaxIssued, e \in ExpiresInChoices : ExchangeResponse(c, rt, e)
    \/ \E c \in SeqCallers : ExchangeFailure(c)
    \/ \E c \in SeqCallers : Return(c)
    \/ \E q \in SeqRequests : Request(q[1], q[2], q[3], q[4], q[5])
    \/ TimerFire
    \/ CloseEvent
    \/ BindError
    \/ AcceptError
    \/ ResponseRead
    \/ NewProcess
    \/ \E d \in TickChoices : Tick(d)

SpecSeq == InitSeq /\ [][NextSeq]_vars

\* the listener alone: waitForCallback called directly, as the tests do
InitCB ==
    /\ InitClock
    /\ file = NoFile
    /\ InitTokenManager
    /\ InitListener
    /\ InitLimiter
    /\ InitExt
    /\ cfg = DefaultCfg

NextCB ==
    \/ \E t \in TimeoutChoices : WaitForCallback(t)
    \/ \E q \in Targets, code \in Params, st \in Params,
          er \in Params, d \in Params : Request(q, code, st, er, d)
    \/ TimerFire
    \/ CloseEvent
    \/ BindError
    \/ AcceptError
    \/ ResponseRead
    \/ \E d \in TickChoices : Tick(d)

\* the event loop runs a due timer and a queued 'error' event
SpecCB == InitCB /\ [][NextCB]_vars /\ WF_vars(TimerFire) /\ WF_vars(BindError)

\* the RateLimiter alone, under each configuration
InitRL ==
    /\ InitClock
    /\ file = NoFile
    /\ InitTokenManager
    /\ InitListener
    /\ InitLimiter
    /\ InitExt
    /\ cfg \in {[maxConcurrent |-> m, minIntervalMs |-> MinIntervalMs(rpm)] :
                  m \in ConcurrentChoices, rpm \in RpmChoices}

NextRL ==
    \/ \E o \in Ops : Execute(o)
    \/ \E o \in Ops : Resume(o)
    \/ \E o \in Ops : Wake(o)
    \/ \E o \in Ops : Start(o)
    \/ \E o \in Ops, res \in Outcomes : Finish(o, res)
    \/ \E d \in TickChoices : Tick(d)

SpecRL == InitRL /\ [][NextRL]_vars

\* getConfig over every combination of settings defined in the environment,
\* in the global config file and in the .env of the current directory
InitConfig ==
    /\ InitClock
    /\ file = NoFile
    /\ InitTokenManager
    /\ InitListener
    /\ InitLimiter
    /\ InitFileStore
    /\ InitHttp
    /\ InitCache
    /\ cfg = DefaultCfg
    /\ dc = IdleDc
    /\ wfd = IdleWfd
    /\ ch = IdleCh
    /\ tl = IdleTail
    /\ \E e \in SUBSET Settings, g \in SUBSET Settings, l \in SUBSET Settings :
          conf = [IdleConf EXCEPT !.env = SourceWith(e, "env"),
                                  !.procEnv = SourceWith(e, "env"),
                                  !.saved = SourceWith(g, "global"),
                                  !.dotenv = SourceWith(l, "dotenv")]

NextConfig == GetConfig \/ ClearConfigCache

SpecConfig == InitConfig /\ [][NextConfig]_vars

\* everything below the API layer at rest
InitBase ==
    /\ InitClock
    /\ file = NoFile
    /\ InitTokenManager
    /\ InitListener
    /\ InitLimiter
    /\ InitFileStore
    /\ InitHttp
    /\ InitCache
    /\ cfg = DefaultCfg

\* the whole client at rest
InitIdle == InitBase /\ InitApi

DcMethods == {"acquireLock", "saveFile", "releaseLock"}

\* updateFile with the owner id in the cache or not
InitDc ==
    /\ InitBase
    /\ conf = IdleConf
    /\ wfd = IdleWfd
    /\ ch = IdleCh
    /\ tl = IdleTail
    /\ \E o \in BOOLEAN : dc = [IdleDc EXCEPT !.owner = o]

NextDc ==
    \/ UpdateFile
    \/ \E m \in DcMethods, ok \in BOOLEAN : OwnerId(m, ok)
    \/ \E m \in DcMethods, ok \in BOOLEAN : PostSettles(m, ok)
    \/ OwnerExpires

SpecDc == InitDc /\ [][NextDc]_vars

NextCh ==
    \/ Mutate
    \/ MutationServed
    \/ MutationDone
    \/ MutationFails
    \/ \E c \in Callers : GetDeployments(c)
    \/ \E c \in Callers : GetServed(c)
    \/ \E c \in Callers : GetResolves(c)
    \/ \E c \in Callers : GetReturn(c)

SpecCh == InitIdle /\ [][NextCh]_vars

NextTail ==
    \/ \E stamped \in BOOLEAN : AppendLine(stamped)
    \/ TailLogs
    \/ PollOk
    \/ PollFails
    \/ NextPoll

SpecTail == InitIdle /\ [][NextTail]_vars

\* the timeouts waitForDeployment is called with, and how long a poll takes
WaitTimeouts == {0, 5000, 12000}
PollDurations == {0, 3000}

NextWfd ==
    \/ \E t \in WaitTimeouts : WaitForDeployment(t)
    \/ LoopTest
    \/ \E st \in Statuses, dt \in PollDurations : PollReturns(st, dt)
    \/ SleepWake

\* waitForDeployment when every poll returns and every timer fires
SpecWfd ==
    /\ InitIdle
    /\ [][NextWfd]_vars
    /\ WF_vars(LoopTest)
    /\ WF_vars(\E st \in Statuses, dt \in PollDurations : PollReturns(st, dt))
    /\ WF_vars(SleepWake)

\* the RateLimiter when every continuation that is queued runs, every timer
\* that is due fires and every operation settles
NextRLFair ==
    \/ \E o \in Ops : Execute(o)
    \/ \E o \in Ops : Resume(o)
    \/ \E o \in Ops : Wake(o)
    \/ \E o \in Ops : Start(o)
    \/ \E o \in Ops, res \in Outcomes : Finish(o, res)

SpecRLFair ==
    /\ InitRL
    /\ [][NextRLFair]_vars
    /\ \A o \in Ops :
          /\ WF_vars(Resume(o))
          /\ WF_vars(Wake(o))
          /\ WF_vars(Start(o))
          /\ WF_vars(\E res \in Outcomes : Finish(o, res))

\* the FileStore alone: save, load, clear and exists in any order, one call
\* at a time, over a token file that can be damaged in between
InitFS ==
    /\ InitClock
    /\ file \in {NoFile, Garbage}
    /\ InitTokenManager
    /\ InitListener
    /\ InitLimiter
    /\ InitExt
    /\ cfg = DefaultCfg

NextFS ==
    \/ \E c \in SeqCallers, t \in SaveChoices, iv \in IVs : SeqStart(c) /\ FsSave(c, t, iv)
    \/ \E c \in SeqCallers : SeqStart(c) /\ FsLoad(c)
    \/ \E c \in SeqCallers : SeqStart(c) /\ FsClear(c)
    \/ \E c \in SeqCallers : SeqStart(c) /\ FsExists(c)
    \/ \E g \in Corruptions(file) : Corrupt(g)
    \/ \E c \in SeqCallers : Return(c)

SpecFS == InitFS /\ [][NextFS]_vars

\* the Cache alone
InitCacheOnly ==
    /\ InitClock
    /\ file = NoFile
    /\ InitTokenManager
    /\ InitListener
    /\ InitLimiter
    /\ InitExt
    /\ cfg = DefaultCfg

NextCache ==
    \/ \E c \in SeqCallers, k \in CacheKeys : CacheGet(c, k)
    \/ \E k \in CacheKeys, v \in CacheValues, ttlMs \in TtlChoices : CacheSet(k, v, ttlMs)
    \/ \E k \in CacheKeys : CacheDelete(k)
    \/ CacheClear
    \/ \E c \in SeqCallers, k \in CacheKeys, ttlMs \in TtlChoices : GetOrCompute(c, k, ttlMs)
    \/ \E c \in SeqCallers, v \in CacheValues : ComputeResolves(c, v)
    \/ \E c \in SeqCallers : ComputeRejects(c)
    \/ \E c \in SeqCallers : CacheReturn(c)
    \/ \E d \in TickChoices : Tick(d)

SpecCache == InitCacheOnly /\ [][NextCache]_vars

\* the token files an earlier session can have left behind:
\* none, a TokenSet that is good for an hour, and one that is inside
\* the refresh buffer, with and without a refresh token
SessionChoices ==
    {NoFile} \cup
    {SaveRecord(MkTokens(1, rt, ein, T0 + ein * 1000), iv) :
        rt \in 0..1, ein \in (ExpiresInChoices \ {0}) \cup {DefaultExpiresIn}, iv \in IVs}

\* TokenManager calls of several callers that overlap. A call is made at any
\* point; a network response or a request to the listener is handled when
\* no continuation is queued.
InitConc ==
    /\ InitClock
    /\ file \in SessionChoices
    /\ cachedTokens = NoTokens
    /\ issued = 1
    /\ call = [c \in Callers |-> IdleCall]
    /\ authTokens = NoTokens
    /\ InitListener
    /\ InitLimiter
    /\ InitExt
    /\ cfg = DefaultCfg

\* the requests the listener sees in these runs: the provider's redirect with
\* a code and its redirect with an error
ConcRequests ==
    {<<callbackPath, "x", "x", "", "">>, <<callbackPath, "", "", "x", "">>}

NextConc ==
    \/ \E c \in Callers : GetAccessToken(c)
    \/ \E c \in Callers : Refresh(c)
    \/ \E c \in Callers : Logout(c)
    \/ \E c \in SeqCallers : srv = "none" /\ Authenticate(c)
    \/ \E c \in Callers : GetTokensAssign(c)
    \/ \E c \in Callers : GetAccessTokenCheck(c)
    \/ \E c \in Callers : RefreshCheck(c)
    \/ \E c \in Callers : AssignSaved(c)
    \/ \E c \in Callers : LogoutAssign(c)
    \/ \E c \in Callers, rt \in 0..MaxIssued, ein \in ExpiresInChoices :
          ~MicrotaskPending /\ RefreshResponse(c, rt, ein)
    \/ \E c \in Callers : ~MicrotaskPending /\ RefreshFailure(c)
    \/ \E q \in ConcRequests :
          ~MicrotaskPending /\ Request(q[1], q[2], q[3], q[4], q[5])
    \/ ~MicrotaskPending /\ CloseEvent
    \/ ResponseRead
    \/ \E c \in Callers : AuthCallbackResolved(c)
    \/ \E c \in Callers : AuthCallbackRejected(c)
    \/ \E c \in Callers, rt \in 0..MaxIssued, ein \in ExpiresInChoices :
          ~MicrotaskPending /\ ExchangeResponse(c, rt, ein)
    \/ \E c \in Callers : ~MicrotaskPending /\ ExchangeFailure(c)
    \/ \E c \in Callers : Return(c)

SpecConc == InitConc /\ [][NextConc]_vars

\* what the compute functions of overlapping getOrCompute calls resolve with
ComputeValues == {"v1", "v2"}

\* getOrCompute calls of several callers that overlap
NextOverlap ==
    \/ \E c \in Callers, k \in CacheKeys, ttlMs \in TtlChoices : GetOrCompute(c, k, ttlMs)
    \/ \E c \in Callers, v \in ComputeValues : ComputeResolves(c, v)
    \/ \E c \in Callers : ComputeRejects(c)
    \/ \E c \in Callers : CacheReturn(c)
    \/ \E d \in TickChoices : Tick(d)

SpecOverlap == InitCacheOnly /\ [][NextOverlap]_vars

\* the HttpClient over a TokenManager and its own RateLimiter
InitHttpClient ==
    /\ InitClock
    /\ file \in SessionChoices
    /\ cachedTokens = NoTokens
    /\ issued = 1
    /\ call = [c \in Callers |-> IdleCall]
    /\ authTokens = NoTokens
    /\ InitListener
    /\ InitLimiter
    /\ InitExt
    /\ cfg \in {DefaultCfg, [maxConcurrent |-> 1, minIntervalMs |-> MinIntervalMs(6000)]}

NextHttp ==
    \/ \E h \in HttpCalls : HttpRequest(h)
    \/ \E h \in HttpCalls : Resume(h)
    \/ \E h \in HttpCalls : Wake(h)
    \/ \E h \in HttpCalls : Start(h)
    \/ \E h \in HttpCalls : Interceptor(h)
    \/ \E h \in HttpCalls : GetTokensAssign(h)
    \/ \E h \in HttpCalls : GetAccessTokenCheck(h)
    \/ \E h \in HttpCalls, rt \in 0..MaxIssued, e \in ExpiresInChoices : RefreshResponse(h, rt, e)
    \/ \E h \in HttpCalls : RefreshFailure(h)
    \/ \E h \in HttpCalls : AssignSaved(h)
    \/ \E h \in HttpCalls : HttpDispatch(h)
    \/ \E h \in HttpCalls : HttpAuthFailed(h)
    \/ \E h \in HttpCalls, ok \in BOOLEAN : HttpResponse(h, ok)
    \/ \E h \in HttpCalls : HttpFinish(h)
    \/ \E h \in HttpCalls : HttpReturn(h)

SpecHttp == InitHttpClient /\ [][NextHttp]_vars

TypeOK ==
    /\ now \in Nat
    /\ running \in Int
    /\ \A c \in Callers : call[c].pc \in
          {"idle", "loading", "check", "fetch", "saved", "clearing", "wait_cb",
           "exchange", "done"}

(* ------------------------------ claims --------------------------------- *)
\* the TokenSet the store held when call r was made
Stored(r) == Load(r.startFile)

\* call r is a finished getAccessToken that found a stored TokenSet with a refresh token
GatDoneWithRefreshToken(r) ==
    /\ r.op = "getAccessToken"
    /\ r.pc = "done"
    /\ r.old # NoTokens
    /\ r.old = Stored(r)
    /\ r.old.refreshToken # 0

\* a finished refresh path of getAccessToken: one refresh call, and when the
\* provider answered it, the new TokenSet is persisted, cached and returned
RefreshedOnce(r) ==
    /\ r.refreshes = 1
    /\ r.fetches = 1
    /\ r.result.kind = "ok" =>
          /\ r.tokens = RefreshMap(r.resp, r.old.refreshToken, r.tokens.expiresAt - r.tokens.expiresIn * 1000)
          /\ r.result.token = r.resp.access_token
          /\ r.result.token # r.old.accessToken
          /\ Load(file) = r.tokens
          /\ cachedTokens = r.tokens

\* C1 as stated: getAccessToken on a stored TokenSet with a refresh token
\* refreshes iff expires-at < now + buffer; then one refresh call is made and
\* the new TokenSet is persisted, cached and returned; otherwise there is no
\* refresh call, the stored access token is returned, and the store and the
\* in-memory cache are as they were before the call.
C1_AsStated ==
    \A c \in Callers :
        LET r == call[c] IN
        GatDoneWithRefreshToken(r) =>
            IF r.old.expiresAt < r.checkNow + bufferMs
            THEN RefreshedOnce(r)
            ELSE /\ r.refreshes = 0
                 /\ r.fetches = 0
                 /\ r.result = OkResult(r.old.accessToken)
                 /\ file = r.startFile
                 /\ cachedTokens = r.startCache

\* C1 amended: as C1, except that on the path without refresh the in-memory
\* cache is not left as it was but holds the stored TokenSet afterwards (it is
\* filled from the store when it was empty); the store is unchanged.
C1_Amended ==
    \A c \in Callers :
        LET r == call[c] IN
        GatDoneWithRefreshToken(r) =>
            IF r.old.expiresAt < r.checkNow + bufferMs
            THEN RefreshedOnce(r)
            ELSE /\ r.refreshes = 0
                 /\ r.fetches = 0
                 /\ r.result = OkResult(r.old.accessToken)
                 /\ file = r.startFile
                 /\ cachedTokens = Stored(r)
                 /\ r.startCache \in {NoTokens, Stored(r)}

\* a call in a new process (empty cache) exactly on the buffer boundary,
\* expires-at = now + buffer, which returns the stored token
C1_Witness ==
    \E c \in Callers :
        /\ GatDoneWithRefreshToken(call[c])
        /\ call[c].startCache = NoTokens
        /\ call[c].old.expiresAt = call[c].checkNow + bufferMs
        /\ call[c].result.kind = "ok"

\* C2: a getAccessToken that finds no TokenSet, or one inside the buffer
\* without a refresh token, fails without a network call and without changing
\* the persisted session, with the unauthenticated error in the first case
\* and the expired-no-refresh error in the second.
C2_FailsLocally ==
    \A c \in Callers :
        LET r == call[c] IN
        (/\ r.op = "getAccessToken"
         /\ r.pc = "done"
         /\ \/ r.old = NoTokens
            \/ NeedsRefresh(r.old, r.checkNow) /\ r.old.refreshToken = 0) =>
            /\ r.result.kind = "error"
            /\ r.fetches = 0
            /\ Load(file) = Stored(r)
            /\ r.result.err = IF r.old = NoTokens THEN ErrNotAuthenticated
                              ELSE ErrExpiredNoRefresh
            /\ ErrNotAuthenticated # ErrExpiredNoRefresh

C2_Witness ==
    \E c \in Callers :
        /\ call[c].op = "getAccessToken"
        /\ call[c].pc = "done"
        /\ call[c].old # NoTokens
        /\ call[c].old.refreshToken = 0
        /\ call[c].result.err = ErrExpiredNoRefresh

\* C7: once logout has completed there is no token file and the cache is
\* empty, so getAccessToken would fail as unauthenticated and getStatus would
\* report authenticated:false.
C7_LogoutClears ==
    \A c \in Callers :
        (call[c].op = "logout" /\ call[c].pc = "done") =>
            /\ file = NoFile
            /\ cachedTokens = NoTokens
            /\ GatDecision(TokensView(cachedTokens, file), now) = "unauthenticated"
            /\ ~StatusOf(TokensView(cachedTokens, file), now).authenticated

C7_Witness ==
    \E c \in Callers :
        /\ call[c].op = "logout"
        /\ call[c].pc = "done"
        /\ Stored(call[c]) # NoTokens
        /\ call[c].startCache # NoTokens

\* C10: every successful refresh of a session with a refresh token stores a
\* TokenSet with a refresh token: the one in the response when it carries
\* one, otherwise the one that was sent.
C10_KeepsRefreshToken ==
    \A c \in Callers :
        LET r == call[c] IN
        (/\ r.op \in {"getAccessToken", "refresh"}
         /\ r.pc \in {"saved", "done"}
         /\ r.resp # NoResponse) =>
            /\ r.sentRT = r.old.refreshToken
            /\ r.sentRT # 0
            /\ r.tokens.refreshToken =
                  IF r.resp.refresh_token # 0 THEN r.resp.refresh_token ELSE r.sentRT
            /\ r.tokens.refreshToken # 0
            /\ Load(file) = r.tokens
            /\ Load(file).refreshToken # 0

\* a refresh of a TokenSet that itself came from a refresh, answered without
\* a new refresh token
C10_Witness ==
    \E c \in Callers :
        /\ call[c].op \in {"getAccessToken", "refresh"}
        /\ call[c].pc = "done"
        /\ call[c].resp # NoResponse
        /\ call[c].resp.refresh_token = 0
        /\ call[c].old.accessToken > 1
        /\ call[c].old.refreshToken = 1

\* C9: in every login run the listener has been started (listen() called)
\* by the time the browser is opened.
C9_ListenBeforeBrowser ==
    \A c \in Callers : call[c].opened => call[c].listenStarted /\ srv # "none"

C9_Witness ==
    \E c \in Callers :
        /\ call[c].op = "login"
        /\ call[c].opened
        /\ call[c].pc = "exchange"

\* authenticate() (or the login around it) completes in this step
AuthCompletes(c) ==
    /\ call[c].op \in {"authenticate", "login"}
    /\ call[c].pc = "saved"
    /\ call'[c].pc = "done"

\* ... and leaves the exchanged TokenSet persisted and cached, with status
\* authenticated:true, isExpired:false
AuthLeavesValid(c) ==
    LET t == call'[c].tokens
        st == StatusOf(TokensView(cachedTokens', file'), now')
    IN /\ call'[c].result = OkResult(call'[c].resp.access_token)
       /\ t.accessToken = call'[c].resp.access_token
       /\ t.refreshToken = call'[c].resp.refresh_token
       /\ t.expiresAt = now' + t.expiresIn * 1000
       /\ Load(file') = t
       /\ cachedTokens' = t
       /\ st.authenticated
       /\ ~st.isExpired

\* call r is a getAccessToken past its decision, taken on the TokenSet of the
\* last authenticate after expires_in minus the buffer had passed
GatOnAuthTokensLate(r) ==
    /\ r.op = "getAccessToken"
    /\ r.pc \in {"fetch", "saved", "done"}
    /\ r.old # NoTokens
    /\ r.old = authTokens
    /\ r.checkNow > (r.old.expiresAt - r.old.expiresIn * 1000)
                    + (r.old.expiresIn * 1000 - bufferMs)

\* ... it issues one refresh and, when the provider answers, returns the new token
IssuesRefresh(r) ==
    /\ r.refreshes = 1
    /\ r.result.kind = "ok" =>
          /\ r.result.token = r.resp.access_token
          /\ r.result.token # r.old.accessToken

\* C8 as stated: a successful authenticate persists and caches the exchanged
\* TokenSet, getStatus then reports authenticated:true and isExpired:false,
\* and once time is past expires_in minus the buffer a getAccessToken call
\* issues a refresh and returns the new token.
C8_AsStated ==
    /\ [][\A c \in Callers : AuthCompletes(c) => AuthLeavesValid(c)]_vars
    /\ [](\A c \in Callers : GatOnAuthTokensLate(call[c]) => IssuesRefresh(call[c]))

\* C8 amended: as C8, but the later getAccessToken issues the refresh only
\* when the exchanged TokenSet carries a refresh token; when the provider
\* returned none, it fails with the expired-no-refresh error and no network call.
C8_Amended ==
    /\ [][\A c \in Callers : AuthCompletes(c) => AuthLeavesValid(c)]_vars
    /\ [](\A c \in Callers :
            GatOnAuthTokensLate(call[c]) =>
                IF call[c].old.refreshToken # 0
                THEN IssuesRefresh(call[c])
                ELSE /\ call[c].refreshes = 0
                     /\ call[c].result = ErrResult(ErrExpiredNoRefresh))

\* the scenario: authenticate with expires_in 3600, time advanced past
\* expires_in minus the buffer, getAccessToken refreshed and returned a new token
C8_Witness ==
    \E c \in Callers :
        /\ GatOnAuthTokensLate(call[c])
        /\ call[c].pc = "done"
        /\ call[c].old.expiresIn = DefaultExpiresIn
        /\ call[c].startCache = authTokens
        /\ call[c].result.kind = "ok"
        /\ call[c].result.token # authTokens.accessToken

\* waitForCallback has settled
Settled == promise.state \in {"resolved", "rejected"}

\* C5: whenever waitForCallback has settled, the listener has been closed and
\* its port released.
C5_SettledMeansClosed == Settled => srv # "listening"

\* C6, first part: waitForCallback always settles
AlwaysSettles == (promise.state = "pending") ~> Settled

\* C6: a timer that fires while the call is pending does so no earlier than
\* timeoutMs after the call and rejects it with the timed-out error
TimeoutRejects ==
    (promise.state = "pending" /\ timer = "armed" /\ timer' = "off" /\ closePending') =>
        /\ now' >= deadline
        /\ promise' = Rejected(ErrTimedOut, "")

\* C6: once settled, the outcome stays (until waitForCallback is called again)
SettlesOnce == Settled => (promise' = promise \/ promise' = PendingPromise)

C3_NeverOverCeiling ==
    /\ running <= cfg.maxConcurrent
    /\ Cardinality({o \in Ops : rl[o].pc = "running"}) <= cfg.maxConcurrent

\* C4: two operations are never dispatched less than the minimum interval
\* (60000 / requestsPerMinute ms) apart.
C4_MinInterval == gap = -1 \/ gap >= cfg.minIntervalMs

\* call r is a finished getStatus
StatusDone(r) == r.op = "getStatus" /\ r.pc = "done"

\* C11: whenever getStatus reports authenticated:true, a getAccessToken call
\* made at that same moment does not fail with a re-login error: it returns
\* the stored token, or goes to the provider for a refresh.
C11_AuthenticatedMeansToken ==
    \A c \in Callers :
        LET r == call[c] IN
        (StatusDone(r) /\ r.status.authenticated) =>
            /\ r.old # NoTokens
            /\ \/ ~(r.old.expiresAt < r.checkNow + bufferMs)
               \/ r.old.refreshToken # 0
            /\ GatDecision(r.old, r.checkNow) \in {"valid", "refresh"}

\* C12 as stated: getStatus makes no network call and leaves the token file
\* and the in-memory cache exactly as they were before the call, also when
\* the cache is empty or the file is corrupt.
C12_AsStated ==
    \A c \in Callers :
        LET r == call[c] IN
        StatusDone(r) =>
            /\ r.fetches = 0
            /\ file = r.startFile
            /\ cachedTokens = r.startCache

\* C12 amended: getStatus makes no network call and never changes the
\* TokenSet of the session.  With a TokenSet in the cache it touches neither
\* the file nor the cache.  With an empty cache it reads the file: the cache
\* then holds what the file holds, an intact or missing file is left as it
\* was, and a corrupt file is deleted.
C12_Amended ==
    \A c \in Callers :
        LET r == call[c] IN
        StatusDone(r) =>
            /\ r.fetches = 0
            /\ r.refreshes = 0
            /\ Load(file) = Load(r.startFile)
            /\ IF r.startCache # NoTokens
               THEN file = r.startFile /\ cachedTokens = r.startCache
               ELSE /\ cachedTokens = Load(r.startFile)
                    /\ file = IF r.startFile.kind = "enc" /\ Load(r.startFile) # NoTokens
                              THEN r.startFile ELSE NoFile

\* getStatus in a new process over the token file of an earlier one
C12_Witness ==
    \E c \in Callers :
        /\ StatusDone(call[c])
        /\ call[c].startCache = NoTokens
        /\ call[c].startFile.kind = "enc"
        /\ cachedTokens # NoTokens

\* C13: for a stored TokenSet getStatus returns isExpired = (expires-at < now),
\* canRefresh = (a refresh token is present) and authenticated = (not
\* isExpired or canRefresh); without a stored TokenSet it returns
\* authenticated:false.
C13_StatusFields ==
    \A c \in Callers :
        LET r == call[c] IN
        StatusDone(r) =>
            /\ r.old = TokensView(r.startCache, r.startFile)
            /\ IF r.old = NoTokens
               THEN ~r.status.authenticated
               ELSE /\ r.status.isExpired = (r.old.expiresAt < r.checkNow)
                    /\ r.status.canRefresh = (r.old.refreshToken # 0)
                    /\ r.status.authenticated =
                          ((~r.status.isExpired) \/ r.status.canRefresh)
                    /\ r.status.expiresAt = r.old.expiresAt

\* an expired TokenSet with a refresh token: authenticated, isExpired, canRefresh
C13_Witness ==
    \E c \in Callers :
        /\ StatusDone(call[c])
        /\ call[c].old # NoTokens
        /\ call[c].status.isExpired
        /\ call[c].status.canRefresh
        /\ call[c].status.authenticated

\* the errors getAccessToken() can throw
GatErrors == {ErrNotAuthenticated, ErrExpiredNoRefresh, ErrRefreshFailed}

\* C14, in every state: a call has dispatched at most one request; while the
\* request is out the call holds a slot of the rate limiter; a call that
\* failed in getAccessToken has dispatched nothing and carries that error.
HttpCallOK(h) ==
    /\ http[h].dispatches <= 1
    /\ http[h].pc = "sent" => (rl[h].pc = "running" /\ running >= 1)
    /\ http[h].pc = "responded" => http[h].dispatches = 1
    /\ http[h].pc = "failed" => (http[h].dispatches = 0 /\ http[h].err \in GatErrors)

\* C14, in every step: a request is dispatched only when getAccessToken has
\* returned a token for this call, with that token as bearer and inside the
\* slot; a failure of getAccessToken becomes the failure of the call; when
\* execute settles, the slot is given back, the outcome is that of the
\* request (value or error) and nothing is sent again.
HttpStepOK(h) ==
    /\ http'[h].dispatches > http[h].dispatches =>
          /\ call[h].op = "getAccessToken"
          /\ call[h].pc = "done"
          /\ call[h].result.kind = "ok"
          /\ http'[h].bearer = call[h].result.token
          /\ http'[h].bearer # 0
          /\ rl[h].pc = "running"
    /\ (call[h].pc = "done" /\ call[h].result.kind = "error" /\ call'[h].pc = "idle") =>
          /\ http'[h].pc = "failed"
          /\ http'[h].err = call[h].result.err
          /\ http'[h].dispatches = 0
    /\ (rl[h].pc = "running" /\ rl'[h].pc # "running") =>
          /\ running' = running - 1
          /\ http[h].pc \in {"responded", "failed"}
          /\ rl'[h].out = IF http[h].err = "" THEN "value" ELSE "error"
          /\ http'[h] = http[h]

\* C14: every call through the HTTP pipeline dispatches at most one request,
\* only after getAccessToken has returned a token for it (sent as bearer) and
\* while it holds a rate limiter slot; when getAccessToken or the request
\* fails the error reaches the caller, nothing is retried and the slot is
\* released.
C14_Pipeline ==
    /\ [](\A h \in HttpCalls : HttpCallOK(h))
    /\ [][\A h \in HttpCalls : HttpStepOK(h)]_vars

\* a call whose token refresh failed has returned its slot and its error,
\* while the other call has a request out
C14_Witness ==
    \E h \in HttpCalls, g \in HttpCalls :
        /\ http[h].pc = "failed"
        /\ http[h].err = ErrRefreshFailed
        /\ rl[h].pc = "idle"
        /\ rl[h].out = "error"
        /\ http[g].pc = "sent"

\* operation o has left waitForSlot: its fn() is the next to be invoked, or runs
Dispatched(o) == rl[o].pc \in {"admitted", "running"}

\* operation o is still inside waitForSlot
Waiting(o) == rl[o].pc \in {"queued", "resumed", "sleeping"}

\* C15: callers that were queued on the concurrency ceiling are dispatched in
\* the order in which they were queued, and every release of a slot resumes
\* exactly one caller, the head of the queue.
C15_Fifo ==
    /\ [](\A o \in Ops, p \in Ops :
            (rl[o].ticket > 0 /\ rl[p].ticket > 0 /\ Dispatched(o) /\ Waiting(p)) =>
                rl[o].ticket < rl[p].ticket)
    /\ [][\A o \in Ops :
            (rl[o].pc = "running" /\ rl'[o].pc # "running" /\ queue # <<>>) =>
                /\ queue' = Tail(queue)
                /\ rl[Head(queue)].pc = "queued"
                /\ rl'[Head(queue)].pc = "resumed"
                /\ \A p \in Ops \ {o, Head(queue)} : rl'[p] = rl[p]]_vars

\* C16, in every step: the counter goes up by one exactly when an admitted
\* call starts its operation, and down by one exactly when an operation
\* settles; the call settles as the operation did, and the head of the queue,
\* if there is one, is resumed.
CounterStepOK ==
    /\ \A o \in Ops :
          /\ (rl[o].pc # "running" /\ rl'[o].pc = "running") =>
                (rl[o].pc = "admitted" /\ running' = running + 1)
          /\ (rl[o].pc = "running" /\ rl'[o].pc # "running") =>
                /\ running' = running - 1
                /\ rl'[o].pc = "idle"
                /\ queue # <<>> => (queue' = Tail(queue) /\ rl'[Head(queue)].pc = "resumed")
          /\ \A res \in Outcomes : Finish(o, res) => rl'[o].out = res
    /\ running' # running =>
          \E o \in Ops : (rl[o].pc = "running") # (rl'[o].pc = "running")

\* C16: for every execute call the in-flight counter is incremented once
\* before the operation runs and decremented once when it finishes, resolved
\* or rejected; a rejection reaches the caller unchanged and still releases
\* the next queued caller; the counter is never negative.
C16_Counter ==
    /\ [](running >= 0 /\ running = Cardinality({o \in Ops : rl[o].pc = "running"}))
    /\ [][CounterStepOK]_vars

\* an operation has rejected, its caller has the error, the counter is back
\* at 0 and the caller that was queued behind it has been resumed
C16_Witness ==
    \E o \in Ops, p \in Ops :
        /\ rl[o].pc = "idle"
        /\ rl[o].out = "error"
        /\ rl[p].pc = "resumed"
        /\ running = 0

Unreadable(f) == f.kind # "absent" /\ ~(f.kind = "enc" /\ Decrypts(f))

\* C18: a load of a token file that exists but cannot be parsed or fails
\* authentication returns null without raising and leaves no file behind, so
\* that the session reads as unauthenticated.
C18_CorruptLoad ==
    [][\A c \in Callers :
        (call[c].pc = "idle" /\ call'[c].op = "load" /\ call'[c].pc = "done"
            /\ Unreadable(file)) =>
            /\ call'[c].result = OkResult(0)
            /\ call'[c].loaded = NoTokens
            /\ file' = NoFile
            /\ ~StatusOf(call'[c].loaded, now').authenticated]_vars

\* a load found a tampered file, returned null and the file is gone
C18_Witness ==
    \E c \in Callers :
        /\ call[c].op = "load"
        /\ call[c].pc = "done"
        /\ call[c].startFile.kind = "enc"
        /\ Unreadable(call[c].startFile)
        /\ call[c].loaded = NoTokens
        /\ file = NoFile

\* caller c makes a cache call on key k in this step
CacheCallOn(c, k) ==
    cacheCall[c].pc = "idle" /\ cacheCall'[c].pc # "idle" /\ cacheCall'[c].key = k

\* C19: with the last set(k, v, ttl) made at t0 and no later delete or clear
\* of k, a lookup of k at time t <= t0 + ttl is a hit (get returns v and the
\* entry stays); a later one is a miss: get returns null, the entry is removed,
\* and getOrCompute invokes its compute function again.
C19_Expiry ==
    [][\A c \in Callers, k \in CacheKeys :
        (CacheCallOn(c, k) /\ lastSet[k].made) =>
            IF now <= lastSet[k].at + TtlOf(lastSet[k].ttl)
            THEN /\ store'[k] = store[k]
                 /\ store'[k].present
                 /\ cacheCall'[c].op = "get" =>
                        (cacheCall'[c].pc = "done" /\ cacheCall'[c].ret = lastSet[k].value)
            ELSE /\ ~store'[k].present
                 /\ cacheCall'[c].op = "get" =>
                        (cacheCall'[c].pc = "done" /\ cacheCall'[c].ret = Null)
                 /\ cacheCall'[c].op = "getOrCompute" =>
                        (cacheCall'[c].pc = "computing" /\ cacheCall'[c].computes = 1)]_vars

\* a get() one millisecond after the entry's time was up returned null and
\* removed the entry
C19_Witness ==
    \E c \in Callers, k \in CacheKeys :
        /\ cacheCall[c].op = "get"
        /\ cacheCall[c].pc = "done"
        /\ cacheCall[c].key = k
        /\ lastSet[k].made
        /\ lastSet[k].value # Null
        /\ now = lastSet[k].at + TtlOf(lastSet[k].ttl) + 1
        /\ cacheCall[c].ret = Null
        /\ ~store[k].present
        /\ evictions = 1

\* C20: getOrCompute(k, f) invokes f only on a miss: with an unexpired entry
\* for k present, whatever its value, f is not invoked and the stored value
\* is returned; on a miss f is invoked once, and its result is stored when it
\* is returned.
C20_ComputeOnlyOnMiss ==
    [][\A c \in Callers :
        /\ \A k \in CacheKeys :
              (CacheCallOn(c, k) /\ cacheCall'[c].op = "getOrCompute") =>
                  IF store[k].present /\ now <= store[k].expiresAt
                  THEN /\ cacheCall'[c].pc = "done"
                       /\ cacheCall'[c].computes = 0
                       /\ cacheCall'[c].ret = store[k].value
                  ELSE /\ cacheCall'[c].pc = "computing"
                       /\ cacheCall'[c].computes = 1
        /\ (cacheCall[c].pc = "computing" /\ cacheCall'[c].pc = "done"
                /\ ~cacheCall'[c].failed) =>
              /\ cacheCall'[c].computes = 1
              /\ store'[cacheCall[c].key].present
              /\ store'[cacheCall[c].key].value = cacheCall'[c].ret]_vars

\* the entry of k is present and its time is not up
Live(k) == store[k].present /\ now <= store[k].expiresAt

\* C21: two getOrCompute calls for one key that overlap on a miss both invoke
\* their compute function; each returns the value its own compute resolved
\* with, and each stores it when its compute resolves, so that the cache ends
\* with the value of the call whose compute finished last.
C21_NoSingleFlight ==
    [][\A c \in Callers :
        /\ \A d \in Callers \ {c}, k \in CacheKeys :
              (/\ CacheCallOn(c, k)
               /\ cacheCall'[c].op = "getOrCompute"
               /\ cacheCall[d].pc = "computing"
               /\ cacheCall[d].key = k
               /\ ~Live(k)) =>
                  /\ cacheCall'[c].pc = "computing"
                  /\ cacheCall'[c].computes = 1
                  /\ cacheCall'[d] = cacheCall[d]
        /\ \A v \in ComputeValues :
              (cacheCall[c].pc = "computing" /\ ComputeResolves(c, v)) =>
                  /\ cacheCall'[c].ret = v
                  /\ cacheCall'[c].computes = 1
                  /\ store'[cacheCall[c].key].present
                  /\ store'[cacheCall[c].key].value = v
                  /\ \A d \in Callers \ {c} : cacheCall'[d] = cacheCall[d]]_vars

\* two calls for one key missed at the same time, computed different values
\* and both are back; the cache holds one of the two values
C21_Witness ==
    \E c \in Callers, d \in Callers, k \in CacheKeys :
        /\ c # d
        /\ ticks = 0
        /\ \A e \in {c, d} :
              /\ cacheCall[e].op = "getOrCompute"
              /\ cacheCall[e].pc = "done"
              /\ cacheCall[e].key = k
              /\ cacheCall[e].computes = 1
              /\ ~cacheCall[e].failed
        /\ cacheCall[c].ret = "v1"
        /\ cacheCall[d].ret = "v2"
        /\ store[k].present
        /\ store[k].value = "v2"
        /\ misses = 2

\* C22: while waitForCallback is pending, a request whose path is not the
\* callback path is answered with 404 and changes nothing else: the listener
\* stays open, the promise pending and the timeout running.
C22_OtherPath404 ==
    [][\A target \in Targets \ {callbackPath}, code \in Params, st \in Params,
          er \in Params, d \in Params :
        (/\ srv = "listening"
         /\ promise = PendingPromise
         /\ Request(target, code, st, er, d)) =>
            /\ httpStatus' = 404
            /\ srv' = "listening"
            /\ ~closePending'
            /\ promise' = PendingPromise
            /\ timer' = timer
            /\ deadline' = deadline]_vars

\* no TokenManager call is under way
Quiet == \A c \in Callers : call[c].pc \in {"idle", "done"}

\* C26: whatever the interleaving of overlapping getAccessToken, refresh,
\* authenticate and logout calls, once all of them have
\* completed the cached TokenSet is empty or is the TokenSet in the token file.
C26_CacheMatchesStore ==
    Quiet => (cachedTokens = NoTokens \/ cachedTokens = Load(file))

\* two callers refreshed at the same time, both are back with different
\* tokens, and the cache holds the TokenSet that is in the file
C26_Witness ==
    /\ Quiet
    /\ \A c \in Callers : call[c].pc = "done" /\ call[c].refreshes = 1
    /\ \E c \in Callers, d \in Callers :
          /\ call[c].result.kind = "ok"
          /\ call[d].result.kind = "ok"
          /\ call[c].tokens # call[d].tokens
          /\ cachedTokens = call[d].tokens
    /\ cachedTokens = Load(file)

\* a logout() has completed and left the session unauthenticated
LoggedOut ==
    /\ \E c \in Callers : call[c].op = "logout" /\ call[c].pc = "done"
    /\ file = NoFile
    /\ cachedTokens = NoTokens

\* an authenticate() or setAccessToken() call saves its TokenSet in this step
NewSession ==
    \E c \in Callers :
        /\ call'[c].op \in {"authenticate", "login", "setAccessToken"}
        /\ call[c].pc # "saved"
        /\ call'[c].pc = "saved"

\* C27: once logout() has completed the session stays unauthenticated (no
\* token file, empty cache) until an authenticate or setAccessToken succeeds,
\* also when a refresh that started before the logout completes after it.
C27_LogoutSticks ==
    [][(LoggedOut /\ ~NewSession) => (file' = NoFile /\ cachedTokens' = NoTokens)]_vars

ByPriority(k) ==
    IF conf.env[k] # Undef THEN conf.env[k]
    ELSE IF conf.saved[k] # Undef THEN conf.saved[k]
    ELSE IF conf.dotenv[k] # Undef THEN conf.dotenv[k]
    ELSE DefaultOf(k)

\* C23: getConfig resolves every setting from the highest-priority source
\* that defines it, environment variables > global config file > project
\* .env; a value in the global config file wins over one in the .env.
C23_ConfigPriority ==
    conf.out.kind = "config" =>
        \A k \in Settings : conf.out.values[k] = ByPriority(k)

\* s is an initial part of t
IsPrefix(s, t) == Len(s) <= Len(t) /\ s = SubSeq(t, 1, Len(s))

\* C24: updateFile calls acquireLock, then saveFile, then releaseLock; when
\* acquireLock succeeded, releaseLock is called exactly once, after saveFile
\* settled and whether it succeeded or failed; when acquireLock failed,
\* neither saveFile nor releaseLock is called.
C24_LockReleasedOnce ==
    /\ IsPrefix(dc.calls, <<"acquireLock", "saveFile", "releaseLock">>)
    /\ dc.pc \in {"returned", "thrown"} =>
          dc.calls = IF dc.acquired THEN <<"acquireLock", "saveFile", "releaseLock">>
                     ELSE <<"acquireLock">>
    /\ dc.pc = "returned" => dc.acquired /\ dc.saved

C24_Witness ==
    /\ dc.pc = "thrown"
    /\ dc.acquired /\ ~dc.saved
    /\ dc.posts = <<"acquireLock", "saveFile", "releaseLock">>

\* what waitForDeployment has done is what the last status allows
WfdOutcome ==
    /\ wfd.pc = "returned" => wfd.last \in AppliedStatuses
    /\ wfd.pc = "failed" => wfd.last \in FailedStatuses
    /\ wfd.pc = "timedout" =>
          /\ now - wfd.startTime >= wfd.timeoutMs
          /\ wfd.last \notin AppliedStatuses \cup FailedStatuses
    /\ wfd.last \in AppliedStatuses => wfd.pc = "returned"
    /\ wfd.last \in FailedStatuses => wfd.pc = "failed"

\* C25: waitForDeployment terminates when every poll returns; it returns
\* only on APPLIED or RUNNING, throws the deployment-failed error on FAILED or
\* DEPLOYMENT_FAILED, throws the timeout error otherwise and only once
\* timeoutMs has elapsed, and never polls again after a terminal status.
C25_WaitTerminates ==
    /\ []WfdOutcome
    /\ [][wfd'.polls > wfd.polls =>
            wfd.last \notin AppliedStatuses \cup FailedStatuses]_vars
    /\ (wfd.pc \in {"loop", "polling", "sleeping"})
          ~> (wfd.pc \in {"returned", "failed", "timedout"})

C25_Witness ==
    /\ wfd.pc = "timedout"
    /\ wfd.polls >= 2
    /\ wfd.timeoutMs > 0

\* C29: once a mutating operation has completed, a getDeployments call that
\* starts afterwards does not return a list that was fetched before the
\* mutation took effect, whatever getDeployments calls were in flight.
C29_NoStaleList ==
    \A c \in Callers :
        ch.get[c].pc = "done" /\ ch.get[c].late => ch.get[c].ret = ListAfter

\* C30: tailLogs yields non-empty batches only, no line of the growing log
\* file is part of more than one batch, the cursor never moves backwards,
\* and the loop goes on after a poll that failed.
C30_EachLineOnce ==
    /\ [](\A i \in 1..Len(tl.log) : tl.yielded[i] <= 1)
    /\ [][tl'.lastTimestamp >= tl.lastTimestamp \/ tl.pc = "idle"]_vars
    /\ [][tl'.batches > tl.batches => tl'.batch # {}]_vars
    /\ [][tl.pc = "poll" => tl'.pc \in {"poll", "sleep"}]_vars

====
